---------------------------- MODULE Spec2Model ----------------------------
(***************************************************************************)
(* Model of the Blox Fruits PvP tier list server and of the client-side    *)
(* ranking computation.                                                    *)
(*                                                                         *)
(*   - the in-memory Persistence Gateway (MemStorage, the store the        *)
(*     server falls back to), its players and tiers maps and id counters;  *)
(*   - the Express route handlers of registerRoutes that read and write    *)
(*     players and tiers, each one a single action (one request handled    *)
(*     with no other request interleaved); POST /tiers and DELETE          *)
(*     /players/:id are modelled a second time one await at a time, for    *)
(*     the requests that are handled concurrently;                         *)
(*   - Tier Aggregation (getPlayersWithTiers) and Ranking Computation      *)
(*     (sortPlayersByPoints, getPlayerRank, the PlayerList render).        *)
(*                                                                         *)
(* JavaScript values are modelled as follows.  A nullable integer (the     *)
(* points column) is a sequence: <<>> is null, <<n>> is the number n.  An  *)
(* absent (undefined) property of a request body is a field missing from   *)
(* the record.  Timestamps (createdAt, updatedAt) and the display fields   *)
(* that no operation below reads (avatarUrl, region, combatTitle, bounty)  *)
(* are left out of the records.  A nullable string (the webhookUrl column) *)
(* is a sequence as well: <<>> is null, <<s>> is the string s.             *)
(*                                                                         *)
(* Notification Dispatch (sendDiscordWebhook) is called by the POST and    *)
(* PUT handlers after the storage write.  It catches every error and       *)
(* returns a boolean that the handlers ignore, and it writes only its own  *)
(* module-level maps, so it changes neither the stored players and tiers   *)
(* nor the HTTP answer.  Its calls, its cooldown map and the HTTP requests *)
(* it makes are part of the state.                                         *)
(***************************************************************************)
EXTENDS Integers, Sequences, FiniteSets, TLC

(* ----------------------------- bounds --------------------------------- *)

\* Most records (players and tiers together) the store creates in one run.
MaxCreated == 4

\* Largest point total a request submits.
MaxPoints == 1

\* Longest player list handed to the ranking computation.
MaxListLen == 3

\* Storage calls made through the proxy while the server starts.
MaxCalls == 3

\* Calls of queueWebhookNotification in one run.
MaxQueued == 3

\* Clock steps in one run of the notification queue.
MaxTicks == 5

\* Notifications (sent directly or queued) in one run of the dispatch.
MaxSends == 2

\* Notifications the route handlers send in one run.
MaxNotified == 4

\* Requests handled one await at a time in one run.
MaxFlights == 3

(* ------------------------- JavaScript values --------------------------- *)

\* null in a nullable integer column.
null == <<>>

\* The number n in a nullable integer column.
Num(n) == <<n>>

\* `v || 0` for a nullable integer v.
OrZero(v) == IF v = null THEN 0 ELSE v[1]

\* Truthiness of a string: the empty string is falsy.
TruthyStr(s) == s # ""

\* The string s in a nullable text column.
Str(s) == <<s>>

\* Truthiness of a nullable string: null and the empty string are falsy.
Truthy(v) == v # null /\ v[1] # ""

\* undefined for an optional string argument (a query parameter not given).
undefined == "<undefined>"

(* ------------------------------ domains -------------------------------- *)

\* External platform ids submitted by requests.
RobloxIds == {"r1", "r2"}

\* Point values a request can carry: null or an integer.
PointValues == {null} \cup {Num(n) : n \in 0..MaxPoints}

\* Stored categories used by requests (a subset of the category enumeration).
TierCategories == {"melee", "fruit"}

\* Tier grades used by requests (a subset of the grade enumeration).
TierGrades == {"S", "A"}

\* categoryEnum restricted to the categories above, plus the virtual "overall".
categoryEnum == {"overall"} \cup TierCategories

\* Bodies accepted by insertPlayerSchema (robloxId is required, points is
\* optional and nullable) that leave points out.
PlayerBodies == [robloxId : RobloxIds, username : {"u1"}]

\* Bodies accepted by insertPlayerSchema.partial() (every field optional; an
\* empty-string robloxId passes the schema) that leave points out.
PlayerPatches == {<<>>} \cup [robloxId : RobloxIds \cup {""}]

\* Bodies accepted by insertTierSchema.
InsertTiers == [playerId : 1..MaxCreated, category : TierCategories, tier : TierGrades]

\* Bodies accepted by insertPlayerSchema, with and without points.
PointsBodies ==
    LET ids == RobloxIds \cup {"r3"}
    IN  [robloxId : ids, username : {"u1"}]
          \cup [robloxId : ids, username : {"u1"}, points : PointValues]

\* Bodies accepted by insertPlayerSchema.partial() that carry points only.
PointsPatches == [points : PointValues]

\* Bodies accepted by insertTierSchema, of one category and one grade.
MeleeTiers == [playerId : 1..MaxCreated, category : {"melee"}, tier : {"S"}]

VARIABLES
    players,          \* MemStorage.players: id -> Player
    tiers,            \* MemStorage.tiers: id -> Tier
    admins,           \* MemStorage.admins: id -> Admin
    playerIdCounter,  \* MemStorage.playerIdCounter
    tierIdCounter,    \* MemStorage.tierIdCounter
    res,              \* the last HTTP answer: its route, the route's path or
                      \* query parameter, the status and the JSON body
    rankList,         \* client: the players prop of PlayerList
    rankOut,          \* client: the last rank computation and its result
    adminIdCounter,   \* the id the store gives the next admin
    storageKind,      \* storageInstance, the store behind the proxy: "none"
                      \* until storagePromise resolves, then "sqlite", "pg" or
                      \* "memory"
    sqliteInit,       \* SQLiteStorage.initialize(): "idle", "running", "ready"
                      \* (initialized is true) or "failed" (it threw)
    calls,            \* the storage calls made through the proxy at startup
    sessions,         \* the admin ids that sessions of the session store hold
    now,              \* Date.now(), in ms
    pendingPlayerWebhooks,  \* webhook-utils: playerId -> pending notification
    timers,           \* the live setTimeout timers of queueWebhookNotification
    nextTimeoutId,    \* the id setTimeout returns next
    queued,           \* the calls of queueWebhookNotification so far
    dispatched,       \* the calls of sendDiscordWebhook so far
    recentWebhooks,   \* webhook-utils: username -> time of the last request
    outbound,         \* the HTTP requests (fetch) made to webhook URLs so far
    inflight,         \* the requests being handled one await at a time
    reqAuth           \* the last request: the admin id its session holds
                      \* (0: no session) and the req.user passport attached

storeVars == <<players, tiers, admins, playerIdCounter, tierIdCounter>>
sendVars == <<dispatched, recentWebhooks, outbound>>
rankVars == <<rankList, rankOut>>
hookVars == <<now, pendingPlayerWebhooks, timers, nextTimeoutId, queued, dispatched,
              recentWebhooks, outbound>>
sysVars == <<adminIdCounter, storageKind, sqliteInit, calls, sessions, hookVars, inflight>>
otherVars == <<rankVars, sysVars>>
quietVars == <<rankVars, adminIdCounter, storageKind, sqliteInit, calls, sessions, inflight,
               now, pendingPlayerWebhooks, timers, nextTimeoutId, queued>>
vars == <<players, tiers, admins, playerIdCounter, tierIdCounter, res, rankList, rankOut,
          adminIdCounter, storageKind, sqliteInit, calls, sessions, reqAuth,
          now, pendingPlayerWebhooks, timers, nextTimeoutId, queued, dispatched,
          recentWebhooks, outbound, inflight>>

(* ------------------------------ helpers -------------------------------- *)

\* The batch delay of queueWebhookNotification, in ms.
WEBHOOK_BATCH_DELAY_MS == 2000

\* The clock advances in steps of half the batch delay.
StepMs == WEBHOOK_BATCH_DELAY_MS \div 2

\* Date.now() when the server starts: a positive number of ms.
StartMs == StepMs

\* The keys of a Map in iteration order.  Keys are inserted with increasing
\* ids and a re-set key keeps its place, so insertion order is ascending id.
RECURSIVE KeysInOrder(_)
KeysInOrder(S) ==
    IF S = {} THEN <<>>
    ELSE LET k == CHOOSE k \in S : \A j \in S : k <= j
         IN  <<k>> \o KeysInOrder(S \ {k})

\* Array.from(map.values()).
MapValues(m) ==
    LET keys == KeysInOrder(DOMAIN m)
    IN  [i \in 1..Len(keys) |-> m[keys[i]]]

\* The map m with key k removed (Map.delete).
MapDelete(m, k) == [j \in DOMAIN m \ {k} |-> m[j]]

\* The map m with key k set to v (Map.set).
MapSet(m, k, v) == [j \in DOMAIN m \cup {k} |-> IF j = k THEN v ELSE m[j]]

\* The number of records the store has created so far.
created == (playerIdCounter - 1) + (tierIdCounter - 1)

\* The elements of a sequence, as a set.
Range(s) == {s[i] : i \in DOMAIN s}

(* ------------------------------ passwords ------------------------------ *)

\* The value of the password column is modelled by what `stored.split(".")`
\* makes of it: the sequence of its parts.  None of the passwords submitted
\* below holds a ".".

\* The hex strings randomBytes(16) draws as salts.
Salts == {"7c9b"}

\* The hex digest scrypt derives from a password and a salt.
scrypt(password, salt) == "scrypt(" \o password \o "," \o salt \o ")"

\* hashPassword(password) with the salt drawn: `${digest}.${salt}`.
hashPassword(password, salt) == <<scrypt(password, salt), salt>>

\* A password stored as it was submitted.
plain(password) == <<password>>

\* The passwords the seeding hashes.
SeedPasswords == {"mephist", "yourabloxfruitspvptester"}

\* Passwords submitted by requests.
Passwords == {"secret1", "secret2"}

\* The digests scrypt returns, each 64 bytes long.
Digests == {scrypt(p, salt) : p \in SeedPasswords \cup Passwords, salt \in Salts}

\* comparePasswords(supplied, stored).  Without a second part the salt is
\* undefined and scrypt throws; a first part that is not a 64-byte digest
\* makes timingSafeEqual throw.
comparePasswords(supplied, stored) ==
    IF Len(stored) < 2 THEN "throws"
    ELSE IF stored[1] \notin Digests THEN "throws"
    ELSE IF stored[1] = scrypt(supplied, stored[2]) THEN "equal"
    ELSE "different"

(* ----------------------------- MemStorage ------------------------------ *)

\* The admin the constructor seeds, with the hash of 'mephist'.
defaultAdmin ==
    [id |-> 1, username |-> "lucifer", password |-> hashPassword("mephist", "7c9b"),
     isSuperAdmin |-> 1, canManagePlayers |-> 1, canManageAdmins |-> 1]

\* getPlayers(): every stored player, in map order.
getPlayers == MapValues(players)

\* A lookup by robloxId that never finds the stored player.
getPlayerByRobloxIdNeverFound(robloxId) == {}

\* getPlayerByRobloxId(robloxId): the ids of the stored players found by
\* Array.find, i.e. the first in map order with that robloxId; {} when none.
getPlayerByRobloxId(robloxId) ==
    LET hits == {id \in DOMAIN players : players[id].robloxId = robloxId}
    IN  IF hits = {} THEN {}
        ELSE {CHOOSE id \in hits : \A j \in hits : id <= j}

\* createPlayer(playerData): the player record built for the next id.
createPlayer(playerData) ==
    [id |-> playerIdCounter,
     robloxId |-> playerData.robloxId,
     username |-> playerData.username,
     points |-> IF "points" \in DOMAIN playerData
                THEN Num(OrZero(playerData.points))
                ELSE Num(0),
     webhookUrl |-> IF "webhookUrl" \in DOMAIN playerData /\ Truthy(playerData.webhookUrl)
                    THEN playerData.webhookUrl
                    ELSE null]

\* updatePlayer(id, playerData): the record stored for an existing player.
updatePlayer(id, playerData) ==
    LET player == players[id]
    IN  [id |-> player.id,
         robloxId |-> IF "robloxId" \in DOMAIN playerData /\ TruthyStr(playerData.robloxId)
                      THEN playerData.robloxId
                      ELSE player.robloxId,
         username |-> IF "username" \in DOMAIN playerData /\ TruthyStr(playerData.username)
                      THEN playerData.username
                      ELSE player.username,
         points |-> IF "points" \in DOMAIN playerData
                    THEN playerData.points
                    ELSE player.points,
         webhookUrl |-> IF "webhookUrl" \in DOMAIN playerData
                        THEN playerData.webhookUrl
                        ELSE player.webhookUrl]

\* The tiers of a player in the tiers map m, in map order.
tiersByPlayerId(m, playerId) ==
    SelectSeq(MapValues(m), LAMBDA t : t.playerId = playerId)

\* getTiersByPlayerId(playerId): the player's tiers, in map order.
getTiersByPlayerId(playerId) == tiersByPlayerId(tiers, playerId)

\* getTierByPlayerAndCategory(playerId, category): the ids found by
\* Array.find (the first matching tier in map order); {} when none.
getTierByPlayerAndCategory(playerId, category) ==
    LET hits == {id \in DOMAIN tiers :
                    tiers[id].playerId = playerId /\ tiers[id].category = category}
    IN  IF hits = {} THEN {}
        ELSE {CHOOSE id \in hits : \A j \in hits : id <= j}

\* A createTier that never looks for the existing tier and always inserts.
createTierAlwaysInsert(tierData) ==
    LET tier == [id |-> tierIdCounter, playerId |-> tierData.playerId,
                 category |-> tierData.category, tier |-> tierData.tier]
    IN  [tiers |-> MapSet(tiers, tierIdCounter, tier),
         tierIdCounter |-> tierIdCounter + 1,
         tier |-> tier]

\* createTier(tierData): the tiers map and counter after the call, and the
\* tier it returns.
createTier(tierData) ==
    LET existing == getTierByPlayerAndCategory(tierData.playerId, tierData.category)
    IN  IF existing # {}
        THEN LET existingTier == tiers[CHOOSE id \in existing : TRUE]
                 updatedTier == [existingTier EXCEPT !.tier = tierData.tier]
             IN  [tiers |-> MapSet(tiers, existingTier.id, updatedTier),
                  tierIdCounter |-> tierIdCounter,
                  tier |-> updatedTier]
        ELSE LET tier == [id |-> tierIdCounter, playerId |-> tierData.playerId,
                          category |-> tierData.category, tier |-> tierData.tier]
             IN  [tiers |-> MapSet(tiers, tierIdCounter, tier),
                  tierIdCounter |-> tierIdCounter + 1,
                  tier |-> tier]

\* createAdmin(adminData): the admin record built for the next id; `||`
\* replaces a flag of 0 by the default.
createAdmin(adminData) ==
    [id |-> adminIdCounter,
     username |-> adminData.username,
     password |-> adminData.password,
     isSuperAdmin |-> IF adminData.isSuperAdmin # 0 THEN adminData.isSuperAdmin ELSE 0,
     canManagePlayers |-> IF adminData.canManagePlayers # 0 THEN adminData.canManagePlayers ELSE 1,
     canManageAdmins |-> IF adminData.canManageAdmins # 0 THEN adminData.canManageAdmins ELSE 0]

\* getAdminByUsername(username): the ids of the admins with that username.
getAdminByUsername(username) ==
    {id \in DOMAIN admins : admins[id].username = username}

(* ---------------------------- SQLiteStorage ---------------------------- *)

\* The players, tiers and admins tables are the same maps, keyed by the
\* AUTOINCREMENT id.  createTier, getTiersByPlayerId, deleteTier, deletePlayer
\* and getPlayersWithTiers store and return, for the fields kept here, what
\* the MemStorage methods of the same name do when requests are handled one
\* at a time.

\* The restricted admin seedDefaultAdmin adds next to the default admin.
restrictedAdmin ==
    [id |-> 2, username |-> "bloxfruit_tester08",
     password |-> hashPassword("yourabloxfruitspvptester", "7c9b"),
     isSuperAdmin |-> 0, canManagePlayers |-> 1, canManageAdmins |-> 0]

\* SQLiteStorage.createPlayer(playerData): the row inserted; the values
\* given to the INSERT have no webhookUrl, so the column is null.
sqliteCreatePlayer(playerData) ==
    [id |-> playerIdCounter,
     robloxId |-> playerData.robloxId,
     username |-> playerData.username,
     points |-> IF "points" \in DOMAIN playerData
                THEN Num(OrZero(playerData.points))
                ELSE Num(0),
     webhookUrl |-> null]

\* SQLiteStorage.updatePlayer(id, playerData): every field that is not
\* undefined is written, except webhookUrl, which the UPDATE never sets; the
\* UPDATE throws when roblox_id would equal that of another row (the UNIQUE
\* constraint).
sqliteUpdatePlayer(id, playerData) ==
    LET player == players[id]
        updated == [id |-> player.id,
                    robloxId |-> IF "robloxId" \in DOMAIN playerData
                                 THEN playerData.robloxId
                                 ELSE player.robloxId,
                    username |-> IF "username" \in DOMAIN playerData
                                 THEN playerData.username
                                 ELSE player.username,
                    points |-> IF "points" \in DOMAIN playerData
                               THEN playerData.points
                               ELSE player.points,
                    webhookUrl |-> player.webhookUrl]
    IN  [threw |-> \E j \in DOMAIN players \ {id} :
                       players[j].robloxId = updated.robloxId,
         player |-> updated]

\* SQLiteStorage.createAdmin(adminData): the row holds the values given.
sqliteCreateAdmin(adminData) ==
    [id |-> adminIdCounter,
     username |-> adminData.username,
     password |-> adminData.password,
     isSuperAdmin |-> adminData.isSuperAdmin,
     canManagePlayers |-> adminData.canManagePlayers,
     canManageAdmins |-> adminData.canManageAdmins]

(* ---------------------------- StorageProxy ----------------------------- *)

\* storage.createPlayer(playerData), forwarded to the store in use.
storageCreatePlayer(playerData) ==
    IF storageKind = "sqlite" THEN sqliteCreatePlayer(playerData) ELSE createPlayer(playerData)

\* storage.updatePlayer(id, playerData), forwarded to the store in use.
storageUpdatePlayer(id, playerData) ==
    IF storageKind = "sqlite"
    THEN sqliteUpdatePlayer(id, playerData)
    ELSE [threw |-> FALSE, player |-> updatePlayer(id, playerData)]

\* storage.createAdmin(adminData), forwarded to the store in use.
storageCreateAdmin(adminData) ==
    IF storageKind = "sqlite" THEN sqliteCreateAdmin(adminData) ELSE createAdmin(adminData)

(* --------------------------- tier aggregation -------------------------- *)

\* The category filter of getPlayersWithTiers: `category && category !==
\* "overall"` selects the tiers of that category.
filterTiers(category, playerTiers) ==
    IF category \notin {undefined, ""} /\ category # "overall"
    THEN SelectSeq(playerTiers, LAMBDA t : t.category = category)
    ELSE playerTiers

\* An inclusion test that keeps every player.
includedAlways(category, playerTiers) == TRUE

\* The inclusion test of getPlayersWithTiers: `!category ||
\* playerTiers.length > 0`.
included(category, playerTiers) ==
    category \in {undefined, ""} \/ Len(playerTiers) > 0

\* x placed into the sorted sequence s after every element that the
\* comparator `pointsB - pointsA` does not order after it (a stable sort).
RECURSIVE InsertByPoints(_, _)
InsertByPoints(s, x) ==
    IF s = <<>> THEN <<x>>
    ELSE IF OrZero(x.player.points) - OrZero(Head(s).player.points) > 0
         THEN <<x>> \o s
         ELSE <<Head(s)>> \o InsertByPoints(Tail(s), x)

RECURSIVE SortFrom(_, _)
SortFrom(sorted, rest) ==
    IF rest = <<>> THEN sorted
    ELSE SortFrom(InsertByPoints(sorted, Head(rest)), Tail(rest))

\* A result that is returned in map order, not sorted.
sortByPointsSkipped(result) == result

\* result.sort((a, b) => (b.player.points || 0) - (a.player.points || 0)).
sortByPoints(result) == SortFrom(<<>>, result)

\* getPlayersWithTiers(category).
getPlayersWithTiers(category) ==
    LET allPlayers == getPlayers
        pair(player) == [player |-> player,
                         tiers |-> filterTiers(category, getTiersByPlayerId(player.id))]
        all == [i \in 1..Len(allPlayers) |-> pair(allPlayers[i])]
        result == SelectSeq(all, LAMBDA e : included(category, e.tiers))
    IN  sortByPoints(result)

(* ------------------------ notification dispatch ------------------------ *)

\* The cooldown of sendDiscordWebhook per username, in ms.
WEBHOOK_COOLDOWN_MS == 5000

\* The age in ms above which sendDiscordWebhook drops an entry of
\* recentWebhooks.
RecentMaxAgeMs == 30000

\* A well-formed Discord webhook URL.
DiscordUrl == "https://discord.com/api/webhooks/1"

\* webhookUrl.startsWith('https://discord.com/api/webhooks/').  `new URL` does
\* not throw for a string with that prefix.
startsWithDiscord(webhookUrl) == webhookUrl \in {DiscordUrl}

\* How the HTTP request of a notification ends: a 2xx answer, another answer
\* (`!response.ok`), or a rejected fetch.
Deliveries == {"ok", "http-error", "network-error"}

\* Array.isArray(data.tiers) ? data.tiers : []; a data object without a tiers
\* property has no array.
tiersArray(data) == IF "tiers" \in DOMAIN data THEN data.tiers ELSE <<>>

\* The embed fields: one per tier, named after its category, with its grade.
embedFields(tierList) ==
    [i \in DOMAIN tierList |-> [name |-> tierList[i].category, value |-> tierList[i].tier]]

\* An empty-list test that lets every notification through.
noFieldsNever(fields) == FALSE

\* `fields.length === 0`.
noFields(fields) == Len(fields) = 0

\* A cooldown test that suppresses nothing.
inCooldownNever(webhookKey) == FALSE

\* `lastSent && (now - lastSent) < WEBHOOK_COOLDOWN_MS` for the key's entry
\* of recentWebhooks.
inCooldown(webhookKey) ==
    /\ webhookKey \in DOMAIN recentWebhooks
    /\ recentWebhooks[webhookKey] # 0
    /\ now - recentWebhooks[webhookKey] < WEBHOOK_COOLDOWN_MS

\* The loop that deletes the entries of the map older than RecentMaxAgeMs.
cleanUp(recent) ==
    [k \in {k \in DOMAIN recent : ~(now - recent[k] > RecentMaxAgeMs)} |-> recent[k]]

\* A sendDiscordWebhook that lets the error of a failed request escape.
rethrowsFailure(delivery) == delivery # "ok"

\* The catch block around the request: the error of a rejected fetch or of a
\* non-2xx answer is logged and false is returned; nothing is rethrown.
rethrows(delivery) == FALSE

\* sendDiscordWebhook(webhookUrl, data): the call log, the cooldown map and
\* the HTTP requests after the call.  Everything up to the fetch runs without
\* an await; what the fetch resolves to decides only the value returned.  The
\* call is logged with the player it was made for (0: none given), and the
\* request with the number of the call that made it and whether it was
\* answered 2xx.
sendDiscordWebhook(playerId, webhookUrl, data, delivery) ==
    LET call(returned) ==
            Append(dispatched, [playerId |-> playerId, webhookUrl |-> webhookUrl,
                                data |-> data, at |-> now, returned |-> returned])
        skipped == [dispatched |-> call(FALSE), recentWebhooks |-> recentWebhooks,
                    outbound |-> outbound, threw |-> FALSE]
        fields == embedFields(tiersArray(data))
        webhookKey == data.username
    IN  IF ~TruthyStr(webhookUrl) THEN skipped
        ELSE IF ~startsWithDiscord(webhookUrl) THEN skipped
        ELSE IF noFields(fields) THEN skipped
        ELSE IF inCooldown(webhookKey) THEN skipped
        ELSE [dispatched |-> call(delivery = "ok"),
              recentWebhooks |-> cleanUp(MapSet(recentWebhooks, webhookKey, now)),
              outbound |-> Append(outbound, [call |-> Len(dispatched) + 1,
                                             playerId |-> playerId,
                                             webhookUrl |-> webhookUrl,
                                             title |-> data.username,
                                             fields |-> fields,
                                             at |-> now,
                                             delivered |-> delivery = "ok"]),
              threw |-> rethrows(delivery)]

\* `if (webhookUrl) { await sendDiscordWebhook(webhookUrl, {username, ...,
\* tiers}) }` of a route handler, for the nullable webhookUrl of a player.
notify(playerId, webhookUrl, username, tierList, delivery) ==
    IF Truthy(webhookUrl)
    THEN sendDiscordWebhook(playerId, webhookUrl[1],
                            [username |-> username, tiers |-> tierList], delivery)
    ELSE [dispatched |-> dispatched, recentWebhooks |-> recentWebhooks,
          outbound |-> outbound, threw |-> FALSE]

(* ------------------------- authorization gate -------------------------- *)

\* Session user ids a request can carry; 0 is a request without a session.
SessionIds == {0} \cup sessions

\* req.user of a request that passport attached no admin to.
noUser == <<>>

\* A deserializeUser that attaches a guest without any permission to a request
\* that has no session.
deserializeUserGuest(sid) ==
    IF sid \in DOMAIN admins THEN admins[sid]
    ELSE [id |-> 0, username |-> "", password |-> <<>>, isSuperAdmin |-> 0,
          canManagePlayers |-> 0, canManageAdmins |-> 0]

\* A deserializeUser that attaches the default admin as the constructor seeded
\* it, whatever the store holds for it now.
deserializeUserStale(sid) ==
    IF sid = 1 THEN defaultAdmin
    ELSE IF sid \in DOMAIN admins THEN admins[sid] ELSE noUser

\* passport.deserializeUser(id): the admin storage.getAdminById returns now,
\* or no user when there is none.
deserializeUser(sid) ==
    IF sid \in DOMAIN admins THEN admins[sid] ELSE noUser

\* The session and req.user of a request.
Request(sid) == [sid |-> sid, user |-> deserializeUser(sid)]

\* req.isAuthenticated(): deserializeUser found the session's admin.
isAuthenticated(sid) == deserializeUser(sid) # noUser

\* A permission test that lets every admin through.
canManagePlayersAlways(sid) == TRUE

\* `admin.canManagePlayers` as the handlers test it on req.user.
canManagePlayers(sid) == deserializeUser(sid).canManagePlayers # 0

\* `admin.isSuperAdmin` as the handlers test it on req.user.
isSuperAdmin(sid) == deserializeUser(sid).isSuperAdmin # 0

\* The answer of a handler.
Answer(route, req, status, body) ==
    [route |-> route, req |-> req, status |-> status, body |-> body]

(* ------------------------------- routes -------------------------------- *)

\* POST /tiers
PostTiers(sid, parses, tierData) ==
    /\ UNCHANGED <<players, admins, playerIdCounter, quietVars>>
    /\ reqAuth' = Request(sid)
    /\ IF ~isAuthenticated(sid)
       THEN /\ res' = Answer("POST /tiers", <<>>, 401, "Not authenticated")
            /\ UNCHANGED <<tiers, tierIdCounter, sendVars>>
       ELSE IF ~canManagePlayers(sid)
       THEN /\ res' = Answer("POST /tiers", <<>>, 403, "No permission")
            /\ UNCHANGED <<tiers, tierIdCounter, sendVars>>
       ELSE IF ~parses
       THEN /\ res' = Answer("POST /tiers", <<>>, 400, "Invalid tier data")
            /\ UNCHANGED <<tiers, tierIdCounter, sendVars>>
       ELSE IF tierData.playerId \notin DOMAIN players
       THEN /\ res' = Answer("POST /tiers", <<>>, 404, "Player not found")
            /\ UNCHANGED <<tiers, tierIdCounter, sendVars>>
       ELSE LET r == createTier(tierData)
                player == players[tierData.playerId]
            IN  /\ r.tierIdCounter = tierIdCounter + 1 => created < MaxCreated
                /\ Truthy(player.webhookUrl) => Len(dispatched) < MaxNotified
                /\ tiers' = r.tiers
                /\ tierIdCounter' = r.tierIdCounter
                /\ \E delivery \in Deliveries :
                      LET sent == notify(player.id, player.webhookUrl, player.username,
                                         tiersByPlayerId(r.tiers, player.id), delivery)
                      IN  /\ dispatched' = sent.dispatched
                          /\ recentWebhooks' = sent.recentWebhooks
                          /\ outbound' = sent.outbound
                          /\ res' = IF sent.threw
                                    THEN Answer("POST /tiers", <<>>, 500,
                                                "Failed to create/update tier")
                                    ELSE Answer("POST /tiers", tierData, 201, r.tier)

\* POST /players
PostPlayers(sid, parses, playerData) ==
    /\ UNCHANGED <<tiers, admins, tierIdCounter, quietVars>>
    /\ reqAuth' = Request(sid)
    /\ IF ~isAuthenticated(sid)
       THEN /\ res' = Answer("POST /players", <<>>, 401, "Not authenticated")
            /\ UNCHANGED <<players, playerIdCounter, sendVars>>
       ELSE IF ~canManagePlayers(sid)
       THEN /\ res' = Answer("POST /players", <<>>, 403, "No permission")
            /\ UNCHANGED <<players, playerIdCounter, sendVars>>
       ELSE IF ~parses
       THEN /\ res' = Answer("POST /players", <<>>, 400, "Invalid player data")
            /\ UNCHANGED <<players, playerIdCounter, sendVars>>
       ELSE LET existingPlayer == getPlayerByRobloxId(playerData.robloxId)
                webhookUrl == IF "webhookUrl" \in DOMAIN playerData
                              THEN playerData.webhookUrl ELSE null
                \* the rest of the handler once the player is stored
                answer(player, status, tierList) ==
                    /\ Truthy(webhookUrl) => Len(dispatched) < MaxNotified
                    /\ \E delivery \in Deliveries :
                          LET sent == notify(player.id, webhookUrl,
                                             IF TruthyStr(player.username)
                                             THEN player.username ELSE playerData.username,
                                             tierList, delivery)
                          IN  /\ dispatched' = sent.dispatched
                              /\ recentWebhooks' = sent.recentWebhooks
                              /\ outbound' = sent.outbound
                              /\ res' = IF sent.threw
                                        THEN Answer("POST /players", <<>>, 500,
                                                    "Failed to create/update player")
                                        ELSE Answer("POST /players", playerData.robloxId,
                                                    status, player)
            IN  IF existingPlayer # {}
                THEN LET id == CHOOSE id \in existingPlayer : TRUE
                         r == storageUpdatePlayer(id, playerData)
                     IN  IF r.threw
                         THEN /\ res' = Answer("POST /players", <<>>, 500,
                                               "Failed to create/update player")
                              /\ UNCHANGED <<players, playerIdCounter, sendVars>>
                         ELSE /\ players' = MapSet(players, id, r.player)
                              /\ UNCHANGED playerIdCounter
                              /\ answer(r.player, 200, getTiersByPlayerId(id))
                ELSE LET player == storageCreatePlayer(playerData)
                     IN  /\ created < MaxCreated
                         /\ players' = MapSet(players, player.id, player)
                         /\ playerIdCounter' = playerIdCounter + 1
                         /\ answer(player, 201, <<>>)

\* PUT /players/:id
PutPlayer(sid, parses, id, playerData) ==
    /\ UNCHANGED <<tiers, admins, playerIdCounter, tierIdCounter, quietVars>>
    /\ reqAuth' = Request(sid)
    /\ LET req == id
       IN  IF ~isAuthenticated(sid)
           THEN /\ res' = Answer("PUT /players/:id", req, 401, "Not authenticated")
                /\ UNCHANGED <<players, sendVars>>
           ELSE IF ~canManagePlayers(sid)
           THEN /\ res' = Answer("PUT /players/:id", req, 403, "No permission")
                /\ UNCHANGED <<players, sendVars>>
           ELSE IF id \notin DOMAIN players
           THEN /\ res' = Answer("PUT /players/:id", req, 404, "Player not found")
                /\ UNCHANGED <<players, sendVars>>
           ELSE IF ~parses
           THEN /\ res' = Answer("PUT /players/:id", req, 400, "Invalid player data")
                /\ UNCHANGED <<players, sendVars>>
           ELSE LET r == storageUpdatePlayer(id, playerData)
                    updatedPlayer == r.player
                IN  IF r.threw
                    THEN /\ res' = Answer("PUT /players/:id", req, 500, "Failed to update player")
                         /\ UNCHANGED <<players, sendVars>>
                    ELSE /\ players' = MapSet(players, id, updatedPlayer)
                         /\ Truthy(updatedPlayer.webhookUrl) => Len(dispatched) < MaxNotified
                         /\ \E delivery \in Deliveries :
                               LET sent == notify(id, updatedPlayer.webhookUrl,
                                                  updatedPlayer.username,
                                                  getTiersByPlayerId(id), delivery)
                               IN  /\ dispatched' = sent.dispatched
                                   /\ recentWebhooks' = sent.recentWebhooks
                                   /\ outbound' = sent.outbound
                                   /\ res' = IF sent.threw
                                             THEN Answer("PUT /players/:id", req, 500,
                                                         "Failed to update player")
                                             ELSE Answer("PUT /players/:id", req, 200,
                                                         updatedPlayer)

\* The tiers the DELETE handler removes before it removes the player: none.
tiersToDeleteNone(id) == {}

\* The ids of the tiers the DELETE handler removes before it removes the
\* player: those getTiersByPlayerId returns.
tiersToDelete(id) == {t.id : t \in Range(getTiersByPlayerId(id))}

\* DELETE /players/:id
DeletePlayer(sid, id) ==
    /\ UNCHANGED <<admins, playerIdCounter, tierIdCounter, otherVars>>
    /\ reqAuth' = Request(sid)
    /\ IF ~isAuthenticated(sid)
       THEN /\ res' = Answer("DELETE /players/:id", id, 401, "Not authenticated")
            /\ UNCHANGED <<players, tiers>>
       ELSE IF ~canManagePlayers(sid)
       THEN /\ res' = Answer("DELETE /players/:id", id, 403, "No permission")
            /\ UNCHANGED <<players, tiers>>
       ELSE IF id \notin DOMAIN players
       THEN /\ res' = Answer("DELETE /players/:id", id, 404, "Player not found")
            /\ UNCHANGED <<players, tiers>>
       ELSE /\ tiers' = [j \in DOMAIN tiers \ tiersToDelete(id) |-> tiers[j]]
            /\ players' = MapDelete(players, id)
            /\ res' = Answer("DELETE /players/:id", id, 200,
                             [success |-> id \in DOMAIN players])

\* The requests of a mutating route: every well-formed body sent with a
\* logged-in session, and one body sent without a session or with a
\* body the route's schema rejects (those answers do not depend on the body).
Requests(Bodies) ==
    LET sample == CHOOSE b \in Bodies : TRUE
    IN  [sid : sessions, parses : {TRUE}, body : Bodies]
          \cup [sid : {0}, parses : {TRUE}, body : {sample}]
          \cup [sid : sessions, parses : {FALSE}, body : {sample}]

\* The values of the category query parameter: not given, or any string.
CategoryQueries == {undefined, "overall", "bogus"} \cup TierCategories

\* GET /players?category=
GetPlayers(category) ==
    /\ UNCHANGED <<storeVars, otherVars>>
    /\ reqAuth' = Request(0)
    /\ IF category \notin {undefined, ""} /\ category \notin categoryEnum
       THEN res' = Answer("GET /players", category, 400, "Invalid category")
       ELSE res' = Answer("GET /players", category, 200, getPlayersWithTiers(category))

Init ==
    /\ players = <<>>
    /\ tiers = <<>>
    /\ admins = (1 :> defaultAdmin)
    /\ playerIdCounter = 1
    /\ tierIdCounter = 1
    /\ res = Answer("none", <<>>, 0, <<>>)
    /\ rankList = <<>>
    /\ rankOut = [ranks |-> <<>>, probe |-> <<>>, rank |-> -1]
    /\ adminIdCounter = 2
    /\ storageKind = "memory"
    /\ sqliteInit = "idle"
    /\ calls = <<>>
    /\ sessions = DOMAIN admins
    /\ reqAuth = Request(0)
    /\ now = StartMs
    /\ pendingPlayerWebhooks = <<>>
    /\ timers = {}
    /\ nextTimeoutId = 1
    /\ queued = <<>>
    /\ dispatched = <<>>
    /\ recentWebhooks = <<>>
    /\ outbound = <<>>
    /\ inflight = <<>>

Next ==
    \/ \E r \in Requests(PlayerBodies) : PostPlayers(r.sid, r.parses, r.body)
    \/ \E r \in Requests(PlayerPatches), id \in 1..MaxCreated : PutPlayer(r.sid, r.parses, id, r.body)
    \/ \E sid \in SessionIds, id \in 1..MaxCreated : DeletePlayer(sid, id)
    \/ \E r \in Requests(InsertTiers) : PostTiers(r.sid, r.parses, r.body)
    \/ \E category \in CategoryQueries : GetPlayers(category)

\* Requests that read and write players and tiers; point totals stay at the
\* default.
Spec == Init /\ [][Next]_vars

NextPoints ==
    \/ \E r \in Requests(PointsBodies) : PostPlayers(r.sid, r.parses, r.body)
    \/ \E r \in Requests(PointsPatches), id \in 1..MaxCreated : PutPlayer(r.sid, r.parses, id, r.body)
    \/ \E r \in Requests(MeleeTiers) : PostTiers(r.sid, r.parses, r.body)
    \/ \E category \in CategoryQueries : GetPlayers(category)

\* Requests that set point totals, with tiers of one category.
SpecPoints == Init /\ [][NextPoints]_vars

(* -------------------------- admins and settings ------------------------ *)

\* Usernames submitted for new admins.
NewUsernames == {"mod1"}

\* Bodies as newAdminSchema.parse returns them: the three flags are numbers,
\* present after the schema's defaults.  POST /api/register takes any body;
\* the same ones are submitted to it.
NewAdmins ==
    [username : NewUsernames, password : {"secret1"}, isSuperAdmin : {0, 1},
     canManagePlayers : {0, 1}, canManageAdmins : {0}]

\* `const { password, ...adminWithoutPassword } = admin`.
adminWithoutPassword(admin) ==
    [f \in DOMAIN admin \ {"password"} |-> admin[f]]

\* POST /admins
PostAdmins(sid, parses, newAdminData) ==
    /\ UNCHANGED <<players, tiers, playerIdCounter, tierIdCounter, rankVars,
                   sqliteInit, calls, storageKind, sessions, hookVars, inflight>>
    /\ reqAuth' = Request(sid)
    /\ IF ~isAuthenticated(sid)
       THEN /\ res' = Answer("POST /admins", <<>>, 401, "Not authenticated")
            /\ UNCHANGED <<admins, adminIdCounter>>
       ELSE IF ~isSuperAdmin(sid)
       THEN /\ res' = Answer("POST /admins", <<>>, 403, "No permission")
            /\ UNCHANGED <<admins, adminIdCounter>>
       ELSE IF ~parses
       THEN /\ res' = Answer("POST /admins", <<>>, 400, "Invalid admin data")
            /\ UNCHANGED <<admins, adminIdCounter>>
       ELSE IF getAdminByUsername(newAdminData.username) # {}
       THEN /\ res' = Answer("POST /admins", <<>>, 400, "Username already exists")
            /\ UNCHANGED <<admins, adminIdCounter>>
       ELSE LET newAdmin == storageCreateAdmin(
                                 [newAdminData EXCEPT !.password = plain(@)])
            IN  /\ admins' = MapSet(admins, newAdmin.id, newAdmin)
                /\ adminIdCounter' = adminIdCounter + 1
                /\ res' = Answer("POST /admins", newAdminData, 201,
                                 adminWithoutPassword(newAdmin))

\* GET /admins
GetAdmins(sid) ==
    /\ UNCHANGED <<storeVars, otherVars>>
    /\ reqAuth' = Request(sid)
    /\ IF ~isAuthenticated(sid)
       THEN res' = Answer("GET /admins", <<>>, 401, "Not authenticated")
       ELSE IF ~isSuperAdmin(sid)
       THEN res' = Answer("GET /admins", <<>>, 403, "No permission")
       ELSE res' = Answer("GET /admins", <<>>, 200,
                          [i \in 1..Len(MapValues(admins)) |->
                              adminWithoutPassword(MapValues(admins)[i])])

\* GET /api/user
GetUser(sid) ==
    /\ UNCHANGED <<storeVars, otherVars>>
    /\ reqAuth' = Request(sid)
    /\ IF ~isAuthenticated(sid)
       THEN res' = Answer("GET /user", <<>>, 401, "Not authenticated")
       ELSE res' = Answer("GET /user", <<>>, 200, deserializeUser(sid))

\* The verify callback of the LocalStrategy: the admin to log in, "failed"
\* for done(null, false), "error" for done(error).
verify(username, password) ==
    LET found == getAdminByUsername(username)
        id == CHOOSE i \in found : TRUE
        compared == comparePasswords(password, admins[id].password)
    IN  IF found = {} THEN [outcome |-> "failed"]
        ELSE IF compared = "throws" THEN [outcome |-> "error"]
        ELSE IF compared = "different" THEN [outcome |-> "failed"]
        ELSE [outcome |-> "admin", id |-> id]

\* POST /api/login: passport.authenticate("local") answers 401 when verify
\* fails and hands an error to the error handler; otherwise it opens the
\* session and the handler answers req.user.
Login(username, password) ==
    LET credentials == [username |-> username, password |-> password]
        verified == verify(username, password)
    IN  /\ UNCHANGED <<storeVars, rankVars, adminIdCounter, storageKind, sqliteInit,
                       calls, hookVars, inflight>>
        /\ reqAuth' = Request(0)
        /\ IF verified.outcome = "failed"
           THEN /\ res' = Answer("POST /login", credentials, 401, "Unauthorized")
                /\ UNCHANGED sessions
           ELSE IF verified.outcome = "error"
           THEN /\ res' = Answer("POST /login", credentials, 500,
                                 [error |-> "Internal server error",
                                  message |-> "The \"salt\" argument must be of type string"])
                /\ UNCHANGED sessions
           ELSE /\ sessions' = sessions \cup {verified.id}
                /\ res' = Answer("POST /login", credentials, 200,
                                 admins[verified.id])

\* POST /api/register: the admin is created with the submitted flags and
\* the hashed password, and req.login opens its session.
Register(adminData) ==
    /\ UNCHANGED <<players, tiers, playerIdCounter, tierIdCounter, rankVars,
                   sqliteInit, calls, storageKind, hookVars, inflight>>
    /\ reqAuth' = Request(0)
    /\ IF getAdminByUsername(adminData.username) # {}
       THEN /\ res' = Answer("POST /register", <<>>, 400, "Username already exists")
            /\ UNCHANGED <<admins, adminIdCounter, sessions>>
       ELSE \E salt \in Salts :
            LET admin == storageCreateAdmin(
                             [adminData EXCEPT !.password = hashPassword(@, salt)])
            IN  /\ admins' = MapSet(admins, admin.id, admin)
                /\ adminIdCounter' = adminIdCounter + 1
                /\ sessions' = sessions \cup {admin.id}
                /\ res' = Answer("POST /register", adminData, 201, admin)

\* POST /settings
PostSettings(sid, logoUrlIsString) ==
    /\ UNCHANGED <<storeVars, otherVars>>
    /\ reqAuth' = Request(sid)
    /\ IF ~isAuthenticated(sid)
       THEN res' = Answer("POST /settings", <<>>, 401, "Not authenticated")
       ELSE IF ~canManagePlayers(sid)
       THEN res' = Answer("POST /settings", <<>>, 403, "No permission")
       ELSE IF ~logoUrlIsString
       THEN res' = Answer("POST /settings", <<>>, 400, "Invalid logo URL")
       ELSE res' = Answer("POST /settings", <<>>, 200, [success |-> TRUE])

\* The message of the error a SQLite statement throws.
SqliteErrors == {"SQLITE_BUSY: database is locked"}

\* The message of the error pool.connect() of pg-db throws.
ConnectErrors == {"connect ECONNREFUSED"}

\* GET /database/stats.  The getters of MemStorage cannot throw; a statement
\* of the SQLite store can (storageError is the message, null when none).
GetDatabaseStats(sid, storageError) ==
    /\ UNCHANGED <<storeVars, otherVars>>
    /\ reqAuth' = Request(sid)
    /\ storageError # null => storageKind = "sqlite"
    /\ IF ~isAuthenticated(sid)
       THEN res' = Answer("GET /database/stats", <<>>, 401, "Not authenticated")
       ELSE IF ~isSuperAdmin(sid)
       THEN res' = Answer("GET /database/stats", <<>>, 403, "No permission")
       ELSE IF storageError # null
       THEN res' = Answer("GET /database/stats", <<>>, 500,
                          [success |-> FALSE,
                           message |-> "Failed to get database stats",
                           error |-> storageError[1]])
       ELSE res' = Answer("GET /database/stats", <<>>, 200,
                          [success |-> TRUE,
                           stats |-> [playerCount |-> Cardinality(DOMAIN players),
                                      tierCount |-> Cardinality(DOMAIN tiers),
                                      adminCount |-> Cardinality(DOMAIN admins)]])

\* POST /database/reset: initDatabase() and seedDefaultAdmin() of pg-db run
\* against the PostgreSQL pool, not against the store in use; initDatabase
\* throws when the pool cannot connect (connectError is the message).
PostDatabaseReset(sid, production, connectError) ==
    /\ UNCHANGED <<storeVars, otherVars>>
    /\ reqAuth' = Request(sid)
    /\ IF ~isAuthenticated(sid)
       THEN res' = Answer("POST /database/reset", <<>>, 401, "Not authenticated")
       ELSE IF ~isSuperAdmin(sid)
       THEN res' = Answer("POST /database/reset", <<>>, 403, "No permission")
       ELSE IF production
       THEN res' = Answer("POST /database/reset", <<>>, 403, "Not allowed in production")
       ELSE IF connectError # null
       THEN res' = Answer("POST /database/reset", <<>>, 500,
                          [success |-> FALSE,
                           message |-> "Failed to reset database",
                           error |-> connectError[1]])
       ELSE res' = Answer("POST /database/reset", <<>>, 200,
                          [success |-> TRUE,
                           message |-> "Database has been reset successfully"])

\* The permission columns of the admins table.
PermissionFlags == {"isSuperAdmin", "canManagePlayers"}

\* A permission column of an admin's row set to 0 in the database.  No route
\* of the server updates an admin; the row is edited by whoever administers
\* the database file.  No request is being answered.
ClearFlag(id, flag) ==
    /\ storageKind = "sqlite"
    /\ id \in DOMAIN admins
    /\ admins[id][flag] # 0
    /\ admins' = [admins EXCEPT ![id][flag] = 0]
    /\ res' = Answer("none", <<>>, 0, <<>>)
    /\ reqAuth' = Request(0)
    /\ UNCHANGED <<players, tiers, playerIdCounter, tierIdCounter, otherVars>>

\* Bodies of the player and tier routes used with the authorization gate.
GatePlayers == [robloxId : {"r1"}, username : {"u1"}]
GateTiers == [playerId : {1}, category : {"melee"}, tier : {"S"}]

\* Usernames submitted to POST /api/login.
LoginUsernames == NewUsernames \cup {"lucifer"}

\* The store the proxy resolved to, as its constructor or its seeding left it.
InitAuth ==
    /\ players = <<>>
    /\ tiers = <<>>
    /\ storageKind \in {"memory", "sqlite"}
    /\ admins = IF storageKind = "sqlite"
                THEN (1 :> defaultAdmin) @@ (2 :> restrictedAdmin)
                ELSE (1 :> defaultAdmin)
    /\ adminIdCounter = IF storageKind = "sqlite" THEN 3 ELSE 2
    /\ sqliteInit = IF storageKind = "sqlite" THEN "ready" ELSE "idle"
    /\ calls = <<>>
    /\ sessions = DOMAIN admins
    /\ playerIdCounter = 1
    /\ tierIdCounter = 1
    /\ res = Answer("none", <<>>, 0, <<>>)
    /\ rankList = <<>>
    /\ rankOut = [ranks |-> <<>>, probe |-> <<>>, rank |-> -1]
    /\ reqAuth = Request(0)
    /\ now = StartMs
    /\ pendingPlayerWebhooks = <<>>
    /\ timers = {}
    /\ nextTimeoutId = 1
    /\ queued = <<>>
    /\ dispatched = <<>>
    /\ recentWebhooks = <<>>
    /\ outbound = <<>>
    /\ inflight = <<>>

NextAuth ==
    \/ \E r \in Requests(NewAdmins) : PostAdmins(r.sid, r.parses, r.body)
    \/ \E adminData \in NewAdmins : Register(adminData)
    \/ \E sid \in SessionIds : GetAdmins(sid)
    \/ \E sid \in SessionIds : GetUser(sid)
    \/ \E username \in LoginUsernames, password \in Passwords : Login(username, password)
    \/ \E r \in Requests(GatePlayers) : PostPlayers(r.sid, r.parses, r.body)
    \/ \E r \in Requests(GatePlayers) : PutPlayer(r.sid, r.parses, 1, r.body)
    \/ \E sid \in SessionIds : DeletePlayer(sid, 1)
    \/ \E r \in Requests(GateTiers) : PostTiers(r.sid, r.parses, r.body)
    \/ \E sid \in SessionIds, isString \in BOOLEAN : PostSettings(sid, isString)
    \/ \E sid \in SessionIds, storageError \in {null} \cup {Str(m) : m \in SqliteErrors} :
          GetDatabaseStats(sid, storageError)
    \/ \E sid \in SessionIds, production \in BOOLEAN,
            connectError \in {null} \cup {Str(m) : m \in ConnectErrors} :
          PostDatabaseReset(sid, production, connectError)
    \/ \E id \in DOMAIN admins, flag \in PermissionFlags : ClearFlag(id, flag)

\* The guarded routes called with every logged-in session (the seeded admins
\* and the registered ones), over either store.
SpecAuth == InitAuth /\ [][NextAuth]_vars

(* ------------------------ storage initialization ---------------------- *)

\* testConnection() of sqlite-db: it logs and returns true.
testSqliteConnection == TRUE

\* The admins seedDefaultAdmin leaves in a new database.
seededAdmins == (1 :> defaultAdmin) @@ (2 :> restrictedAdmin)

\* initializeStorage(), and the `.then` that sets storageInstance: the
\* SQLiteStorage when its connection test passes (its constructor starts
\* initialize() and returns), else the PostgreSQL store when that one
\* connects, else a MemStorage.
InitializeStorage(pgConnected) ==
    /\ storageKind = "none"
    /\ IF testSqliteConnection
       THEN /\ storageKind' = "sqlite"
            /\ sqliteInit' = "running"
            /\ UNCHANGED <<admins, adminIdCounter, sessions>>
       ELSE IF pgConnected
       THEN /\ storageKind' = "pg"
            /\ UNCHANGED <<sqliteInit, admins, adminIdCounter, sessions>>
       ELSE /\ storageKind' = "memory"
            /\ admins' = (1 :> defaultAdmin)
            /\ adminIdCounter' = 2
            /\ UNCHANGED <<sqliteInit, sessions>>
    /\ UNCHANGED <<players, tiers, playerIdCounter, tierIdCounter, res, rankVars, calls,
                   reqAuth, hookVars, inflight>>

\* SQLiteStorage.initialize() after its connection test: initDatabase()
\* creates the tables or throws; seedDefaultAdmin() seeds the admins or
\* returns false; initialized is set unless initDatabase threw.  The error is
\* logged by the constructor's catch.
SqliteInitialize(tablesCreated, seeded) ==
    /\ sqliteInit = "running"
    /\ IF tablesCreated
       THEN /\ sqliteInit' = "ready"
            /\ admins' = IF seeded THEN seededAdmins ELSE admins
            /\ adminIdCounter' = IF seeded THEN 3 ELSE adminIdCounter
       ELSE /\ sqliteInit' = "failed"
            /\ UNCHANGED <<admins, adminIdCounter>>
    /\ UNCHANGED <<players, tiers, playerIdCounter, tierIdCounter, res, rankVars,
                   storageKind, calls, sessions, reqAuth, hookVars, inflight>>

\* A call that reached the store: ensureInitialized() lets it run when
\* initialized is true and otherwise sleeps 100 ms; the other stores run it.
enterStore ==
    IF storageKind = "sqlite" /\ sqliteInit # "ready" THEN "sleeping" ELSE "done"

\* A method of StorageProxy is called: getStorage() awaits storagePromise
\* while storageInstance is not set, and the call goes to the store otherwise.
ProxyCall(c) ==
    /\ calls[c] = "idle"
    /\ calls' = [calls EXCEPT ![c] = IF storageKind = "none" THEN "awaiting" ELSE enterStore]
    /\ UNCHANGED <<storeVars, res, rankVars, adminIdCounter, storageKind, sqliteInit,
                   sessions, reqAuth, hookVars, inflight>>

\* storagePromise resolved: a waiting call goes to the store.
PromiseResolved(c) ==
    /\ calls[c] = "awaiting"
    /\ storageKind # "none"
    /\ calls' = [calls EXCEPT ![c] = enterStore]
    /\ UNCHANGED <<storeVars, res, rankVars, adminIdCounter, storageKind, sqliteInit,
                   sessions, reqAuth, hookVars, inflight>>

\* The 100 ms timer of ensureInitialized() fires: the call runs when
\* initialized is true by now and otherwise throws "SQLite database not
\* initialized".
TimerFires(c) ==
    /\ calls[c] = "sleeping"
    /\ calls' = [calls EXCEPT ![c] = IF sqliteInit = "ready" THEN "done" ELSE "failed"]
    /\ UNCHANGED <<storeVars, res, rankVars, adminIdCounter, storageKind, sqliteInit,
                   sessions, reqAuth, hookVars, inflight>>

\* The storage module is loaded: nothing is initialized and no call is made.
InitBoot ==
    /\ players = <<>>
    /\ tiers = <<>>
    /\ admins = <<>>
    /\ playerIdCounter = 1
    /\ tierIdCounter = 1
    /\ adminIdCounter = 1
    /\ res = Answer("none", <<>>, 0, <<>>)
    /\ rankList = <<>>
    /\ rankOut = [ranks |-> <<>>, probe |-> <<>>, rank |-> -1]
    /\ storageKind = "none"
    /\ sqliteInit = "idle"
    /\ calls = [c \in 1..MaxCalls |-> "idle"]
    /\ sessions = {}
    /\ reqAuth = Request(0)
    /\ now = StartMs
    /\ pendingPlayerWebhooks = <<>>
    /\ timers = {}
    /\ nextTimeoutId = 1
    /\ queued = <<>>
    /\ dispatched = <<>>
    /\ recentWebhooks = <<>>
    /\ outbound = <<>>
    /\ inflight = <<>>

NextBoot ==
    \/ \E pgConnected \in BOOLEAN : InitializeStorage(pgConnected)
    \/ \E tablesCreated, seeded \in BOOLEAN : SqliteInitialize(tablesCreated, seeded)
    \/ \E c \in 1..MaxCalls : ProxyCall(c)
    \/ \E c \in 1..MaxCalls : PromiseResolved(c)
    \/ \E c \in 1..MaxCalls : TimerFires(c)

\* The start of the server: the store is chosen and initialized while storage
\* calls arrive through the proxy.
SpecBoot == InitBoot /\ [][NextBoot]_vars

(* -------------------------- notification queue ------------------------- *)

\* The players notifications are queued for.
QueuePlayers == {1, 2}

\* data.playerId of a call: a player's id, or 0 for a call that gives none.
QueuePlayerIds == {0} \cup QueuePlayers

\* webhookUrl of a call: none, or a Discord webhook URL.
WebhookUrls == {"", DiscordUrl}

\* data.username of the calls for a player.
usernameOf(playerId) ==
    IF playerId = 1 THEN "u1" ELSE IF playerId = 2 THEN "u2" ELSE "u0"

\* The data the k-th call of queueWebhookNotification is given for a player;
\* its tier list holds one tier whose grade is written k, so that every call
\* carries its own.
QueueData(playerId, k) ==
    [playerId |-> playerId, username |-> usernameOf(playerId),
     tiers |-> <<[category |-> "melee", tier |-> k]>>]

\* queueWebhookNotification(webhookUrl, data).  The function has no await
\* before the call it may make of sendDiscordWebhook, so it runs as one step.
queueWebhookNotification(webhookUrl, data, delivery) ==
    /\ Len(queued) < MaxQueued
    /\ queued' = Append(queued, [playerId |-> data.playerId, webhookUrl |-> webhookUrl,
                                  tiers |-> tiersArray(data), at |-> now])
    /\ IF ~TruthyStr(webhookUrl)
       THEN UNCHANGED <<pendingPlayerWebhooks, timers, nextTimeoutId, dispatched,
                        recentWebhooks, outbound>>
       ELSE IF data.playerId = 0
       THEN LET sent == sendDiscordWebhook(0, webhookUrl, data, delivery)
            IN  /\ dispatched' = sent.dispatched
                /\ recentWebhooks' = sent.recentWebhooks
                /\ outbound' = sent.outbound
                /\ UNCHANGED <<pendingPlayerWebhooks, timers, nextTimeoutId>>
       ELSE LET playerId == data.playerId
                kept == [f \in DOMAIN data \cap {"username", "tiers"} |-> data[f]]
                stored == MapSet(pendingPlayerWebhooks, playerId,
                                 [webhookUrl |-> webhookUrl,
                                  data |-> kept @@ [timestamp |-> now],
                                  timeoutId |-> null])
                existingTimeout == stored[playerId].timeoutId
                cleared == IF existingTimeout # null
                           THEN {t \in timers : t.id # existingTimeout[1]}
                           ELSE timers
                timeoutId == nextTimeoutId
            IN  /\ timers' = cleared \cup {[id |-> timeoutId, playerId |-> playerId,
                                             due |-> now + WEBHOOK_BATCH_DELAY_MS]}
                /\ nextTimeoutId' = nextTimeoutId + 1
                /\ pendingPlayerWebhooks' =
                      MapSet(stored, playerId,
                             [stored[playerId] EXCEPT !.timeoutId = Num(timeoutId)])
                /\ UNCHANGED <<dispatched, recentWebhooks, outbound>>
    /\ UNCHANGED <<storeVars, res, rankVars, adminIdCounter, storageKind, sqliteInit,
                   calls, sessions, reqAuth, now, inflight>>

\* A timer callback that leaves the pending entry in the map.
afterSendKept(pending, playerId) == pending

\* pendingPlayerWebhooks.delete(playerId) in the timer callback.
afterSend(pending, playerId) == MapDelete(pending, playerId)

\* The callback of a timer set by queueWebhookNotification runs: it sends the
\* pending notification of its player, if there is one, and deletes it.
TimeoutFires(t, delivery) ==
    /\ t \in timers
    /\ t.due <= now
    /\ timers' = timers \ {t}
    /\ IF t.playerId \in DOMAIN pendingPlayerWebhooks
       THEN LET pendingWebhook == pendingPlayerWebhooks[t.playerId]
                sent == sendDiscordWebhook(t.playerId, pendingWebhook.webhookUrl,
                                           pendingWebhook.data, delivery)
            IN  /\ dispatched' = sent.dispatched
                /\ recentWebhooks' = sent.recentWebhooks
                /\ outbound' = sent.outbound
                /\ pendingPlayerWebhooks' = afterSend(pendingPlayerWebhooks, t.playerId)
       ELSE UNCHANGED <<pendingPlayerWebhooks, dispatched, recentWebhooks, outbound>>
    /\ UNCHANGED <<storeVars, res, rankVars, adminIdCounter, storageKind, sqliteInit,
                   calls, sessions, reqAuth, now, nextTimeoutId, queued, inflight>>

\* Time passes; a timer that is due runs before the clock moves on.
Tick ==
    /\ now < StartMs + MaxTicks * StepMs
    /\ \A t \in timers : t.due > now
    /\ now' = now + StepMs
    /\ UNCHANGED <<storeVars, res, rankVars, adminIdCounter, storageKind, sqliteInit,
                   calls, sessions, reqAuth, pendingPlayerWebhooks, timers,
                   nextTimeoutId, queued, dispatched, recentWebhooks, outbound, inflight>>

NextQueue ==
    \/ \E webhookUrl \in WebhookUrls, playerId \in QueuePlayerIds :
          queueWebhookNotification(webhookUrl, QueueData(playerId, Len(queued) + 1), "ok")
    \/ \E t \in timers : TimeoutFires(t, "ok")
    \/ Tick

\* The notification queue called for any player at any time; every HTTP
\* request it makes is answered 2xx.
SpecQueue == Init /\ [][NextQueue]_vars

(* ----------------------- requests that notify ------------------------- *)

\* Bodies of POST /players for a player that has a webhook URL.
NotifyPlayers ==
    [robloxId : {"r1"}, username : {"u1"}, webhookUrl : {Str(DiscordUrl)}]

\* Bodies of POST /tiers for that player: one category, either grade.
NotifyTiers == [playerId : {1}, category : {"melee"}, tier : TierGrades]

NextNotify ==
    \/ \E playerData \in NotifyPlayers : PostPlayers(1, TRUE, playerData)
    \/ \E tierData \in NotifyTiers : PostTiers(1, TRUE, tierData)
    \/ Tick

\* A player with a webhook URL is created and its tiers are written by the
\* default admin while time passes; the HTTP request of a notification ends
\* in any way.
SpecNotify == Init /\ [][NextNotify]_vars

\* Bodies of POST /players for two players that have a webhook URL and carry
\* the same username (usernames are not unique).
PairPlayers ==
    [robloxId : RobloxIds, username : {"u1"}, webhookUrl : {Str(DiscordUrl)}]

\* Bodies of POST /tiers for those players: one category and one grade.
PairTiers == [playerId : {1, 2}, category : {"melee"}, tier : {"S"}]

NextPair ==
    \/ \E playerData \in PairPlayers : PostPlayers(1, TRUE, playerData)
    \/ \E tierData \in PairTiers : PostTiers(1, TRUE, tierData)
    \/ Tick

\* Two players with a webhook URL and the same username are created and their
\* tiers are written while time passes.
SpecPair == Init /\ [][NextPair]_vars

(* ------------------------- dispatch on its own ------------------------- *)

\* A URL that is not a Discord webhook URL.
OtherUrl == "https://example.com/hook"

\* The tier lists of the notifications: no tiers property, an empty list, a
\* list with one tier.
oneTier == <<[category |-> "melee", tier |-> "S"]>>

\* The arguments sendDiscordWebhook is called with: a Discord URL with every
\* tier list for one username and a tier for another, and each unusable URL.
DispatchCalls ==
    ([webhookUrl : {DiscordUrl}, data : [username : {"u1"}]]
       \cup [webhookUrl : {DiscordUrl}, data : [username : {"u1"}, tiers : {<<>>, oneTier}]]
       \cup [webhookUrl : {DiscordUrl}, data : [username : {"u2"}, tiers : {oneTier}]])
    \cup [webhookUrl : {"", OtherUrl}, data : [username : {"u1"}, tiers : {oneTier}]]

\* The notifications queued for player 1: an empty tier list, or one tier.
BatchedData == [playerId : {1}, username : {"u1"}, tiers : {<<>>, oneTier}]

\* The notifications of the run so far: the calls made and those pending.
notifications == Len(dispatched) + Cardinality(timers)

\* sendDiscordWebhook(webhookUrl, data) called by any caller.
Send(webhookUrl, data, delivery) ==
    /\ notifications < MaxSends
    /\ LET sent == sendDiscordWebhook(0, webhookUrl, data, delivery)
       IN  /\ dispatched' = sent.dispatched
           /\ recentWebhooks' = sent.recentWebhooks
           /\ outbound' = sent.outbound
    /\ UNCHANGED <<storeVars, res, rankVars, adminIdCounter, storageKind, sqliteInit,
                   calls, sessions, reqAuth, now, pendingPlayerWebhooks, timers,
                   nextTimeoutId, queued, inflight>>

\* The server stays idle for longer than recentWebhooks keeps an entry.
Idle ==
    /\ now < StartMs + MaxTicks * StepMs
    /\ timers = {}
    /\ now' = now + RecentMaxAgeMs + StepMs
    /\ UNCHANGED <<storeVars, res, rankVars, adminIdCounter, storageKind, sqliteInit,
                   calls, sessions, reqAuth, pendingPlayerWebhooks, timers,
                   nextTimeoutId, queued, dispatched, recentWebhooks, outbound, inflight>>

NextDispatch ==
    \/ \E c \in DispatchCalls, delivery \in Deliveries : Send(c.webhookUrl, c.data, delivery)
    \/ \E data \in BatchedData :
          notifications < MaxSends /\ queueWebhookNotification(DiscordUrl, data, "ok")
    \/ \E t \in timers, delivery \in Deliveries : TimeoutFires(t, delivery)
    \/ Tick
    \/ Idle

\* sendDiscordWebhook called directly and by the timers of the queue, at any
\* time and with any outcome of the HTTP request.
SpecDispatch == Init /\ [][NextDispatch]_vars

(* ----------------------- requests that interleave ---------------------- *)

\* A handler is an async function: it runs until an `await`, and the steps of
\* other handlers can run before it resumes.  Each action below is the part
\* of a handler between two awaits that reads or writes the store; inflight
\* holds, for every request started, the await it stands at (pc) and the
\* values its handler holds in local constants.

\* The player POST /players stored before the requests below arrive.
RacePlayer ==
    [id |-> 1, robloxId |-> "r1", username |-> "u1", points |-> Num(0), webhookUrl |-> null]

\* Bodies of POST /tiers.
RaceTiers == [playerId : {1}, category : {"melee"}, tier : {"S", "A"}]

\* The requests whose handler has answered.
done(f) == inflight[f].pc = "done"

\* No request is being handled.
quiescent == \A f \in DOMAIN inflight : done(f)

\* The variables no step of an interleaved handler writes.
raceQuiet == <<admins, playerIdCounter, rankVars, adminIdCounter, storageKind, sqliteInit,
               calls, sessions, hookVars>>

\* The flight f moved to the await pc, holding found.
resumeAt(f, pc, found) == [inflight EXCEPT ![f].pc = pc, ![f].found = found]

\* The gate and the start of a handler, up to `await storage.getPlayerById`.
start(sid, route, flight) ==
    /\ Len(inflight) < MaxFlights
    /\ reqAuth' = Request(sid)
    /\ UNCHANGED <<players, tiers, tierIdCounter, raceQuiet>>
    /\ IF ~isAuthenticated(sid)
       THEN /\ res' = Answer(route, <<>>, 401, "Not authenticated")
            /\ UNCHANGED inflight
       ELSE IF ~canManagePlayers(sid)
       THEN /\ res' = Answer(route, <<>>, 403, "No permission")
            /\ UNCHANGED inflight
       ELSE /\ inflight' = Append(inflight, flight)
            /\ UNCHANGED res

\* POST /tiers arrives.
PostTiersStart(sid, tierData) ==
    start(sid, "POST /tiers",
          [route |-> "POST /tiers", pc |-> "getPlayerById", tierData |-> tierData,
           found |-> null])

\* getPlayerById resolves in POST /tiers: 404 without the player, else
\* storage.createTier is called and awaits getTierByPlayerAndCategory.
PostTiersGetPlayer(f) ==
    /\ inflight[f].route = "POST /tiers"
    /\ inflight[f].pc = "getPlayerById"
    /\ UNCHANGED <<players, tiers, tierIdCounter, raceQuiet, reqAuth>>
    /\ IF inflight[f].tierData.playerId \notin DOMAIN players
       THEN /\ res' = Answer("POST /tiers", <<>>, 404, "Player not found")
            /\ inflight' = resumeAt(f, "done", null)
       ELSE /\ inflight' = resumeAt(f, "getTierByPlayerAndCategory", null)
            /\ UNCHANGED res

\* getTierByPlayerAndCategory resolves in createTier: existingTier is what
\* the store holds now.
PostTiersGetTier(f) ==
    /\ inflight[f].route = "POST /tiers"
    /\ inflight[f].pc = "getTierByPlayerAndCategory"
    /\ UNCHANGED <<players, tiers, tierIdCounter, raceQuiet, reqAuth, res>>
    /\ LET existing == getTierByPlayerAndCategory(inflight[f].tierData.playerId,
                                                  inflight[f].tierData.category)
       IN  inflight' = resumeAt(f, "write",
                                IF existing = {} THEN null
                                ELSE <<tiers[CHOOSE id \in existing : TRUE]>>)

\* MemStorage.createTier after its await: the existingTier it holds is set
\* again with the new grade, or a tier is added under the next id.
writeTier(existingTier, tierData) ==
    IF existingTier # null
    THEN LET updatedTier == [existingTier[1] EXCEPT !.tier = tierData.tier]
         IN  [threw |-> FALSE, tiers |-> MapSet(tiers, updatedTier.id, updatedTier),
              tierIdCounter |-> tierIdCounter, tier |-> updatedTier]
    ELSE LET tier == [id |-> tierIdCounter, playerId |-> tierData.playerId,
                      category |-> tierData.category, tier |-> tierData.tier]
         IN  [threw |-> FALSE, tiers |-> MapSet(tiers, tierIdCounter, tier),
              tierIdCounter |-> tierIdCounter + 1, tier |-> tier]

\* The INSERT into tiers is rejected: UNIQUE(player_id, category), or the
\* FOREIGN KEY on player_id with foreign_keys = ON.
sqliteInsertRejected(tierData) ==
    \/ getTierByPlayerAndCategory(tierData.playerId, tierData.category) # {}
    \/ tierData.playerId \notin DOMAIN players

\* SQLiteStorage.createTier after its await: the UPDATE of the rows of the
\* pair (updateTier), or the INSERT.
sqliteWriteTier(existingTier, tierData) ==
    IF existingTier # null
    THEN [threw |-> FALSE,
          tiers |-> [j \in DOMAIN tiers |->
                        IF /\ tiers[j].playerId = tierData.playerId
                           /\ tiers[j].category = tierData.category
                        THEN [tiers[j] EXCEPT !.tier = tierData.tier]
                        ELSE tiers[j]],
          tierIdCounter |-> tierIdCounter, tier |-> existingTier[1]]
    ELSE IF sqliteInsertRejected(tierData)
    THEN [threw |-> TRUE, tiers |-> tiers, tierIdCounter |-> tierIdCounter,
          tier |-> <<>>]
    ELSE writeTier(null, tierData)

\* The write of createTier.  MemStorage returns the tier and the handler
\* answers (the stored player has no webhookUrl); SQLiteStorage reads the
\* updated row back after one more await.
PostTiersWrite(f) ==
    /\ inflight[f].route = "POST /tiers"
    /\ inflight[f].pc = "write"
    /\ UNCHANGED <<players, raceQuiet, reqAuth>>
    /\ LET tierData == inflight[f].tierData
           existingTier == inflight[f].found
           w == IF storageKind = "sqlite"
                THEN sqliteWriteTier(existingTier, tierData)
                ELSE writeTier(existingTier, tierData)
       IN  /\ tiers' = w.tiers
           /\ tierIdCounter' = w.tierIdCounter
           /\ IF w.threw
              THEN /\ res' = Answer("POST /tiers", <<>>, 500, "Failed to create/update tier")
                   /\ inflight' = resumeAt(f, "done", null)
              ELSE IF storageKind = "sqlite" /\ existingTier # null
              THEN /\ inflight' = resumeAt(f, "reread", null)
                   /\ UNCHANGED res
              ELSE /\ res' = Answer("POST /tiers", tierData, 201, <<w.tier>>)
                   /\ inflight' = resumeAt(f, "done", null)

\* updateTier of SQLiteStorage returns what getTierByPlayerAndCategory finds
\* after the UPDATE (undefined when the row is gone), and the handler answers.
PostTiersReread(f) ==
    /\ inflight[f].route = "POST /tiers"
    /\ inflight[f].pc = "reread"
    /\ UNCHANGED <<players, tiers, tierIdCounter, raceQuiet, reqAuth>>
    /\ LET existing == getTierByPlayerAndCategory(inflight[f].tierData.playerId,
                                                  inflight[f].tierData.category)
       IN  res' = Answer("POST /tiers", inflight[f].tierData, 201,
                         IF existing = {} THEN null
                         ELSE <<tiers[CHOOSE id \in existing : TRUE]>>)
    /\ inflight' = resumeAt(f, "done", null)

\* DELETE /players/:id arrives.
DeleteStart(sid, id) ==
    start(sid, "DELETE /players/:id",
          [route |-> "DELETE /players/:id", pc |-> "getPlayerById", id |-> id,
           found |-> null])

\* getPlayerById resolves in DELETE /players/:id.
DeleteGetPlayer(f) ==
    /\ inflight[f].route = "DELETE /players/:id"
    /\ inflight[f].pc = "getPlayerById"
    /\ UNCHANGED <<players, tiers, tierIdCounter, raceQuiet, reqAuth>>
    /\ IF inflight[f].id \notin DOMAIN players
       THEN /\ res' = Answer("DELETE /players/:id", inflight[f].id, 404, "Player not found")
            /\ inflight' = resumeAt(f, "done", null)
       ELSE /\ inflight' = resumeAt(f, "getTiersByPlayerId", null)
            /\ UNCHANGED res

\* getTiersByPlayerId resolves: the handler holds the player's tiers as the
\* store has them now, and deletes them one await after the other.
DeleteGetTiers(f) ==
    /\ inflight[f].route = "DELETE /players/:id"
    /\ inflight[f].pc = "getTiersByPlayerId"
    /\ UNCHANGED <<players, tiers, tierIdCounter, raceQuiet, reqAuth, res>>
    /\ LET playerTiers == getTiersByPlayerId(inflight[f].id)
       IN  inflight' = resumeAt(f, IF playerTiers = <<>> THEN "deletePlayer" ELSE "deleteTier",
                                playerTiers)

\* storage.deleteTier(tier.id) for the next tier of the list.
DeleteNextTier(f) ==
    /\ inflight[f].route = "DELETE /players/:id"
    /\ inflight[f].pc = "deleteTier"
    /\ UNCHANGED <<players, tierIdCounter, raceQuiet, reqAuth, res>>
    /\ tiers' = MapDelete(tiers, Head(inflight[f].found).id)
    /\ LET rest == Tail(inflight[f].found)
       IN  inflight' = resumeAt(f, IF rest = <<>> THEN "deletePlayer" ELSE "deleteTier", rest)

\* The tiers ON DELETE CASCADE removes with the player's row.
cascade(id) == {j \in DOMAIN tiers : tiers[j].playerId = id}

\* storage.deletePlayer(id), and the answer.  The SQLite store removes the
\* tiers that reference the row; MemStorage removes the player only.
DeleteRow(f) ==
    /\ inflight[f].route = "DELETE /players/:id"
    /\ inflight[f].pc = "deletePlayer"
    /\ UNCHANGED <<tierIdCounter, raceQuiet, reqAuth>>
    /\ players' = MapDelete(players, inflight[f].id)
    /\ tiers' = IF storageKind = "sqlite"
                THEN [j \in DOMAIN tiers \ cascade(inflight[f].id) |-> tiers[j]]
                ELSE tiers
    /\ res' = Answer("DELETE /players/:id", inflight[f].id, 200,
                     [success |-> inflight[f].id \in DOMAIN players])
    /\ inflight' = resumeAt(f, "done", null)

\* Player 1 is stored and no tier is; either store is behind the proxy.
InitRace ==
    /\ players = (1 :> RacePlayer)
    /\ playerIdCounter = 2
    /\ tiers = <<>>
    /\ tierIdCounter = 1
    /\ storageKind \in {"memory", "sqlite"}
    /\ admins = IF storageKind = "sqlite"
                THEN (1 :> defaultAdmin) @@ (2 :> restrictedAdmin)
                ELSE (1 :> defaultAdmin)
    /\ adminIdCounter = IF storageKind = "sqlite" THEN 3 ELSE 2
    /\ sqliteInit = IF storageKind = "sqlite" THEN "ready" ELSE "idle"
    /\ calls = <<>>
    /\ sessions = {1}
    /\ res = Answer("none", <<>>, 0, <<>>)
    /\ rankList = <<>>
    /\ rankOut = [ranks |-> <<>>, probe |-> <<>>, rank |-> -1]
    /\ reqAuth = Request(0)
    /\ now = StartMs
    /\ pendingPlayerWebhooks = <<>>
    /\ timers = {}
    /\ nextTimeoutId = 1
    /\ queued = <<>>
    /\ dispatched = <<>>
    /\ recentWebhooks = <<>>
    /\ outbound = <<>>
    /\ inflight = <<>>

NextRace ==
    \/ \E sid \in SessionIds, tierData \in RaceTiers : PostTiersStart(sid, tierData)
    \/ \E sid \in SessionIds : DeleteStart(sid, 1)
    \/ \E f \in DOMAIN inflight : PostTiersGetPlayer(f)
    \/ \E f \in DOMAIN inflight : PostTiersGetTier(f)
    \/ \E f \in DOMAIN inflight : PostTiersWrite(f)
    \/ \E f \in DOMAIN inflight : PostTiersReread(f)
    \/ \E f \in DOMAIN inflight : DeleteGetPlayer(f)
    \/ \E f \in DOMAIN inflight : DeleteGetTiers(f)
    \/ \E f \in DOMAIN inflight : DeleteNextTier(f)
    \/ \E f \in DOMAIN inflight : DeleteRow(f)

\* POST /tiers and DELETE /players/:id requests handled concurrently.
SpecRace == InitRace /\ [][NextRace]_vars

(* ------------------------- ranking computation ------------------------ *)

\* A player of a list as the ranking computation reads it.
RankEntries == [player : [id : 1..(MaxListLen + 1), points : PointValues]]

\* The lists PlayerList is rendered with: at most MaxListLen players with
\* distinct ids (the server returns each stored player at most once), in any
\* order of points.  The ids ascend along the list: the ranking computation
\* reads an id only to compare it with another for equality.
RankLists ==
    {L \in UNION {[1..n -> RankEntries] : n \in 0..MaxListLen} :
        \A i, j \in DOMAIN L : i < j => L[i].player.id < L[j].player.id}

\* sortPlayersByPoints(players): [...players].sort((a, b) => b.player.points
\* - a.player.points); the subtraction reads null as 0.
sortPlayersByPoints(ps) == SortFrom(<<>>, ps)

\* Array.findIndex for the player id: the 0-based index of the first entry
\* with that id, -1 when there is none.
findIndex(sorted, id) ==
    LET hits == {i \in DOMAIN sorted : sorted[i].player.id = id}
    IN  IF hits = {} THEN -1
        ELSE (CHOOSE i \in hits : \A j \in hits : i <= j) - 1

\* A count of the entries with at least the player's points.
higherRankedPlayersOrEqual(sorted, playerPoints) ==
    Len(SelectSeq(sorted, LAMBDA e : OrZero(e.player.points) >= OrZero(playerPoints)))

\* higherRankedPlayers: the number of entries with `p.player.points >
\* playerPoints`; the comparison reads null as 0.
higherRankedPlayers(sorted, playerPoints) ==
    Len(SelectSeq(sorted, LAMBDA e : OrZero(e.player.points) > OrZero(playerPoints)))

\* A rank that is the player's position in the sorted list.
getPlayerRankByPosition(player, ps) ==
    findIndex(sortPlayersByPoints(ps), player.player.id) + 1

\* getPlayerRank(player, players).
getPlayerRank(player, ps) ==
    LET sortedPlayers == sortPlayersByPoints(ps)
        playerIndex == findIndex(sortedPlayers, player.player.id)
    IN  IF playerIndex = -1 THEN 0
        ELSE higherRankedPlayers(sortedPlayers, player.player.points) + 1

\* PlayerList: every player of the list rendered with its rank in the list.
Render ==
    /\ rankOut' = [rankOut EXCEPT
                     !.ranks = [i \in DOMAIN rankList |-> getPlayerRank(rankList[i], rankList)]]
    /\ UNCHANGED <<storeVars, res, rankList, sysVars, reqAuth>>

\* getPlayerRank called for a player that may or may not be in the list.
Rank(p) ==
    /\ rankOut' = [rankOut EXCEPT !.probe = p, !.rank = getPlayerRank(p, rankList)]
    /\ UNCHANGED <<storeVars, res, rankList, sysVars, reqAuth>>

InitRank ==
    /\ players = <<>>
    /\ tiers = <<>>
    /\ admins = (1 :> defaultAdmin)
    /\ playerIdCounter = 1
    /\ tierIdCounter = 1
    /\ res = Answer("none", <<>>, 0, <<>>)
    /\ rankList \in RankLists
    /\ rankOut = [ranks |-> <<>>, probe |-> <<>>, rank |-> -1]
    /\ adminIdCounter = 2
    /\ storageKind = "memory"
    /\ sqliteInit = "idle"
    /\ calls = <<>>
    /\ sessions = DOMAIN admins
    /\ reqAuth = Request(0)
    /\ now = StartMs
    /\ pendingPlayerWebhooks = <<>>
    /\ timers = {}
    /\ nextTimeoutId = 1
    /\ queued = <<>>
    /\ dispatched = <<>>
    /\ recentWebhooks = <<>>
    /\ outbound = <<>>
    /\ inflight = <<>>

NextRank ==
    \/ Render
    \/ \E p \in RankEntries : Rank(p)

\* The ranking computation applied to every bounded list.
SpecRank == InitRank /\ [][NextRank]_vars

(* ------------------------------- claims -------------------------------- *)

\* The stored tiers of one (player, category) pair.
TiersOfPair(m, playerId, category) ==
    {id \in DOMAIN m : m[id].playerId = playerId /\ m[id].category = category}

\* The stored tiers of one player.
TiersOfPlayer(m, playerId) == {id \in DOMAIN m : m[id].playerId = playerId}

\* C1: when POST /tiers (createTier) is answered for a (playerId, category)
\* pair that already has a tier, that tier keeps its id, its grade becomes the
\* submitted grade, and the number of tiers stored for the player does not
\* increase.
C1_CreateTierUpdatesInPlace ==
    [][(res'.route = "POST /tiers" /\ res'.status = 201)
        => LET d == res'.req
               old == TiersOfPair(tiers, d.playerId, d.category)
           IN  old # {} =>
                 /\ \A id \in old :
                       /\ id \in DOMAIN tiers'
                       /\ tiers'[id] = [tiers[id] EXCEPT !.tier = d.tier]
                       /\ res'.body = tiers'[id]
                 /\ Cardinality(TiersOfPlayer(tiers', d.playerId))
                      <= Cardinality(TiersOfPlayer(tiers, d.playerId))
                 /\ tierIdCounter' = tierIdCounter]_vars

\* C1 witness: POST /tiers answered with a tier that is not the newest id the
\* store handed out, i.e. the request updated an existing tier, while the
\* player holds another tier as well.
C1_Witness ==
    /\ res.route = "POST /tiers"
    /\ res.status = 201
    /\ res.body.id + 1 < tierIdCounter
    /\ Cardinality(TiersOfPlayer(tiers, res.body.playerId)) = 2

\* C2: after DELETE /players/:id answers success for an existing player, the
\* player is no longer stored, no tier with that playerId remains, and every
\* other player and every tier of another player is unchanged.
C2_DeletePlayerCascades ==
    [][(res'.route = "DELETE /players/:id" /\ res'.status = 200 /\ res'.body.success)
        => LET id == res'.req
           IN  /\ id \in DOMAIN players
               /\ id \notin DOMAIN players'
               /\ TiersOfPlayer(tiers', id) = {}
               /\ DOMAIN players' = DOMAIN players \ {id}
               /\ \A p \in DOMAIN players' : players'[p] = players[p]
               /\ DOMAIN tiers' = DOMAIN tiers \ TiersOfPlayer(tiers, id)
               /\ \A t \in DOMAIN tiers' : tiers'[t] = tiers[t]]_vars

\* C2 witness: a successful DELETE of a player whose tier went with it (a tier
\* id is missing from the store) while another player and its tier remain.
C2_Witness ==
    /\ res.route = "DELETE /players/:id"
    /\ res.status = 200
    /\ res.body.success
    /\ res.req \notin DOMAIN players
    /\ Cardinality(DOMAIN tiers) < tierIdCounter - 1
    /\ \E p \in DOMAIN players : TiersOfPlayer(tiers, p) # {}

\* C3 (as claimed): no two stored players have the same robloxId.
C3_RobloxIdUnique ==
    \A i, j \in DOMAIN players :
        i # j => players[i].robloxId # players[j].robloxId

\* C4: POST /players is an upsert keyed by robloxId.  When no stored player
\* has the submitted robloxId, exactly one new player with a fresh id is
\* created and the answer is 201; when one has, that player is updated in
\* place (same id, the set of stored players unchanged) and the answer is 200.
C4_PostPlayersUpsert ==
    [][(res'.route = "POST /players" /\ res'.status \notin {400, 401, 403})
        => LET holders == {id \in DOMAIN players : players[id].robloxId = res'.req}
               new == res'.body.id
           IN  IF holders = {}
               THEN /\ res'.status = 201
                    /\ new \notin DOMAIN players
                    /\ new >= playerIdCounter
                    /\ DOMAIN players' = DOMAIN players \cup {new}
                    /\ players'[new] = res'.body
                    /\ res'.body.robloxId = res'.req
                    /\ \A id \in DOMAIN players : players'[id] = players[id]
               ELSE /\ res'.status = 200
                    /\ new \in holders
                    /\ DOMAIN players' = DOMAIN players
                    /\ players'[new] = res'.body
                    /\ res'.body.robloxId = res'.req
                    /\ \A id \in DOMAIN players \ {new} : players'[id] = players[id]
                    /\ playerIdCounter' = playerIdCounter]_vars

\* C4 witness: POST /players answered 200 for a stored player while another
\* player is stored too.
C4_Witness ==
    /\ res.route = "POST /players"
    /\ res.status = 200
    /\ res.body.id \in DOMAIN players
    /\ Cardinality(DOMAIN players) >= 2

\* The stored players that have at least one tier of category c.
PlayersWithCategory(c) ==
    {players[id] : id \in {i \in DOMAIN players : TiersOfPair(tiers, i, c) # {}}}

\* C5: for a category c other than "overall", getPlayersWithTiers(c) returns
\* exactly the players that have at least one tier of category c, each once
\* and each paired with exactly its tiers of category c.
C5_CategoryFilter ==
    \A c \in categoryEnum \ {"overall"} :
        LET r == getPlayersWithTiers(c)
        IN  /\ {r[i].player : i \in DOMAIN r} = PlayersWithCategory(c)
            /\ Len(r) = Cardinality(PlayersWithCategory(c))
            /\ \A i \in DOMAIN r :
                  /\ Range(r[i].tiers)
                       = {tiers[t] : t \in TiersOfPair(tiers, r[i].player.id, c)}
                  /\ Len(r[i].tiers)
                       = Cardinality(TiersOfPair(tiers, r[i].player.id, c))

\* C5 witness: GET /players?category=melee answered with a non-empty list
\* while a stored player has tiers, none of them melee, and is left out.
C5_Witness ==
    /\ res.route = "GET /players"
    /\ res.req = "melee"
    /\ res.status = 200
    /\ res.body = getPlayersWithTiers("melee")
    /\ Len(res.body) >= 1
    /\ \E p \in DOMAIN players :
          /\ TiersOfPlayer(tiers, p) # {}
          /\ TiersOfPair(tiers, p, "melee") = {}
          /\ \A i \in DOMAIN res.body : res.body[i].player.id # p

\* C6 (as claimed): getPlayersWithTiers("overall") returns what the call with
\* no category returns: every stored player, those with zero tiers included.
C6_OverallReturnsEveryPlayer ==
    LET r == getPlayersWithTiers("overall")
    IN  /\ r = getPlayersWithTiers(undefined)
        /\ {r[i].player : i \in DOMAIN r} = {players[id] : id \in DOMAIN players}

\* A sequence of player/tiers pairs is ordered by non-increasing points, a
\* null points value counting as 0.
NonIncreasingPoints(r) ==
    \A i, j \in DOMAIN r :
        i < j => OrZero(r[i].player.points) >= OrZero(r[j].player.points)

\* C7: for every category argument, the list getPlayersWithTiers returns is
\* ordered by non-increasing player points (a missing value counting as 0).
C7_SortedByPoints ==
    \A c \in CategoryQueries : NonIncreasingPoints(getPlayersWithTiers(c))

\* C7 witness: GET /players answered with three players, the stored order of
\* which (ascending id) is not the order of their points, one of them with
\* null points.
C7_Witness ==
    /\ res.route = "GET /players"
    /\ res.status = 200
    /\ res.body = getPlayersWithTiers(res.req)
    /\ Len(res.body) = 3
    /\ ~NonIncreasingPoints([i \in 1..Len(getPlayers) |-> [player |-> getPlayers[i]]])
    /\ \E i \in DOMAIN res.body : res.body[i].player.points = null

\* The number of entries of L with strictly more points than v, a null
\* points value counting as 0.
StrictlyMore(L, v) ==
    Cardinality({i \in DOMAIN L : OrZero(L[i].player.points) > OrZero(v)})

\* The entry with the given id and points.
Entry(id, points) == [player |-> [id |-> id, points |-> Num(points)]]

C9_RankMonotone ==
    \A i, j \in DOMAIN rankList :
        LET p == rankList[i]
            q == rankList[j]
        IN  /\ OrZero(p.player.points) >= OrZero(q.player.points)
                 => getPlayerRank(p, rankList) <= getPlayerRank(q, rankList)
            /\ OrZero(p.player.points) = OrZero(q.player.points)
                 => getPlayerRank(p, rankList) = getPlayerRank(q, rankList)

\* C9 witness: a rendered list in which two players tie and share a rank, a
\* third has fewer points and a larger rank, and the list is not given in
\* the order of its points.
C9_Witness ==
    /\ Len(rankList) = 3
    /\ rankOut.ranks = [i \in DOMAIN rankList |-> getPlayerRank(rankList[i], rankList)]
    /\ \E i, j, k \in DOMAIN rankList :
          /\ i # j
          /\ rankOut.ranks[i] = rankOut.ranks[j]
          /\ rankOut.ranks[k] > rankOut.ranks[i]
          /\ k < i

\* The ranks getPlayerRank gives the players of the list.
RanksOf(L) == [i \in DOMAIN L |-> getPlayerRank(L[i], L)]

MutatingRoutes ==
    {"POST /players", "POST /tiers", "PUT /players/:id", "DELETE /players/:id",
     "POST /settings"}

\* The routes behind the isAuthenticated middleware that are modelled.
GuardedRoutes == MutatingRoutes \cup {"POST /admins"}

\* C11 (as claimed): a request of an authenticated admin whose isSuperAdmin
\* flag is set is never answered 403 on a mutating route, whatever its other
\* flags.
C11_SuperAdminAuthorized ==
    [][(/\ res'.route \in MutatingRoutes
        /\ reqAuth'.user # noUser
        /\ reqAuth'.user.isSuperAdmin # 0)
        => res'.status # 403]_vars

\* C12: POST /players by an authenticated admin with isSuperAdmin unset is
\* answered 403 with the stored players unchanged when canManagePlayers is
\* unset, and is accepted (neither 401 nor 403) when canManagePlayers is set.
C12_PostPlayersPermission ==
    [][(/\ res'.route = "POST /players"
        /\ reqAuth'.user # noUser
        /\ reqAuth'.user.isSuperAdmin = 0)
        => IF reqAuth'.user.canManagePlayers = 0
           THEN /\ res'.status = 403
                /\ players' = players
                /\ playerIdCounter' = playerIdCounter
           ELSE res'.status \in {200, 201, 400, 500}]_vars

\* C12 witness: POST /players answered 403 to an admin with both flags unset
\* while a player is stored.
C12_Witness ==
    /\ res.route = "POST /players"
    /\ res.status = 403
    /\ reqAuth.user # noUser
    /\ reqAuth.user.isSuperAdmin = 0
    /\ reqAuth.user.canManagePlayers = 0
    /\ DOMAIN players # {}

C14_PermissionReadPerRequest ==
    [][(res'.route \in GuardedRoutes /\ reqAuth'.sid \in DOMAIN admins)
        => /\ reqAuth'.user = admins[reqAuth'.sid]
           /\ res'.route \in MutatingRoutes
                => (res'.status = 403 <=> admins[reqAuth'.sid].canManagePlayers = 0)]_vars

\* C14 witness: POST /players of the default admin's session, seeded with
\* canManagePlayers set, answered 403 after the flag was cleared in the store.
C14_Witness ==
    /\ res.route = "POST /players"
    /\ res.status = 403
    /\ reqAuth.sid = 1
    /\ admins[1].canManagePlayers = 0
    /\ defaultAdmin.canManagePlayers = 1

\* C15 (as claimed): updatePlayer(id, patch) on a stored player returns a
\* record in which every field present in patch has the patch's value (the
\* empty string, 0 and null included) and every other field, the id included,
\* has its prior value.
C15_UpdatePlayerSetsPresentFields ==
    \A id \in DOMAIN players, patch \in PlayerPatches \cup PointsPatches :
        LET updated == updatePlayer(id, patch)
        IN  /\ updated.id = id
            /\ \A f \in {"robloxId", "points"} :
                  updated[f] = IF f \in DOMAIN patch THEN patch[f] ELSE players[id][f]

\* C16 (as claimed): MemStorage and SQLiteStorage are interchangeable: called
\* on the same stored records with the same argument, createAdmin returns the
\* same admin (the same permission flags) and updatePlayer returns the same
\* player in both.
C16_StoresInterchangeable ==
    [][/\ (res'.route \in {"POST /admins", "POST /register"} /\ res'.status = 201)
            => createAdmin(res'.req) = sqliteCreateAdmin(res'.req)
       /\ (res'.route = "PUT /players/:id" /\ res'.status = 200)
            => \A patch \in PlayerPatches :
                  LET r == sqliteUpdatePlayer(res'.req, patch)
                  IN  ~r.threw => r.player = updatePlayer(res'.req, patch)]_vars

\* C17 (as claimed): no storage call made through the proxy fails with the
\* not-initialized error, and a call that ran did so against an initialized
\* store.
C17_CallsDeferredUntilInitialized ==
    \A c \in DOMAIN calls :
        /\ calls[c] # "failed"
        /\ calls[c] = "done" => (storageKind \in {"memory", "pg"} \/ sqliteInit = "ready")

\* C18 (as claimed): once the preferred store has failed to initialize, the
\* store behind the proxy is a MemStorage holding exactly the default admin.
C18_FallbackToMemStorage ==
    sqliteInit = "failed"
        => /\ storageKind = "memory"
           /\ admins = (1 :> defaultAdmin)

\* The calls of queueWebhookNotification that queued a notification for p.
QueuedFor(p) ==
    {i \in DOMAIN queued : queued[i].playerId = p /\ TruthyStr(queued[i].webhookUrl)}

\* The calls of sendDiscordWebhook made by the timers of player p.
SendsOf(p) == {j \in DOMAIN dispatched : dispatched[j].playerId = p}

\* p has two or more queued calls, all less than the batch delay after the
\* first of them.
OneBatch(p) ==
    /\ Cardinality(QueuedFor(p)) >= 2
    /\ \A i, j \in QueuedFor(p) : queued[j].at < queued[i].at + WEBHOOK_BATCH_DELAY_MS

C20_DebounceResetsTimer ==
    /\ \A p \in QueuePlayers : Cardinality({t \in timers : t.playerId = p}) <= 1
    /\ \A j \in DOMAIN dispatched :
          dispatched[j].playerId \in QueuePlayers
            => dispatched[j].at >= dispatched[j].data.timestamp + WEBHOOK_BATCH_DELAY_MS

\* C21: an HTTP request is only made for a notification with at least one
\* tier: every sendDiscordWebhook call whose data has no tiers array or an
\* empty one, made directly or by a timer of the queue, returns false, and no
\* request is made at the time of a call unless some call at that time has a
\* tier to report.
C21_EmptyTiersNoRequest ==
    /\ \A j \in DOMAIN dispatched :
          Len(tiersArray(dispatched[j].data)) = 0 => ~dispatched[j].returned
    /\ \A o \in DOMAIN outbound : Len(outbound[o].fields) > 0
    /\ Len(outbound) <= Cardinality({j \in DOMAIN dispatched :
                                         Len(tiersArray(dispatched[j].data)) > 0})

\* C21 witness: a direct call with an empty tier list or none and a timer's
\* call with an empty list have been made with a Discord URL, and no HTTP
\* request.
C21_Witness ==
    /\ outbound = <<>>
    /\ \E j \in DOMAIN dispatched :
          /\ dispatched[j].playerId = 0
          /\ dispatched[j].webhookUrl = DiscordUrl
          /\ Len(tiersArray(dispatched[j].data)) = 0
    /\ \E j \in DOMAIN dispatched :
          /\ dispatched[j].playerId = 1
          /\ dispatched[j].webhookUrl = DiscordUrl
          /\ dispatched[j].data.tiers = <<>>

\* The HTTP requests made for a username by the calls before call j that
\* were made less than the cooldown before it.
RecentRequests(j) ==
    {o \in DOMAIN outbound :
        /\ outbound[o].call < j
        /\ outbound[o].title = dispatched[j].data.username
        /\ dispatched[j].at - outbound[o].at < WEBHOOK_COOLDOWN_MS}

\* C22: two HTTP requests for the same username are never made less than
\* WEBHOOK_COOLDOWN_MS apart, and a sendDiscordWebhook call made within the
\* cooldown of a request for its username makes no request and returns false.
C22_CooldownPerUsername ==
    /\ \A i, j \in DOMAIN outbound :
          (i < j /\ outbound[i].title = outbound[j].title)
            => outbound[j].at - outbound[i].at >= WEBHOOK_COOLDOWN_MS
    /\ \A j \in DOMAIN dispatched :
          RecentRequests(j) # {} =>
            /\ ~dispatched[j].returned
            /\ \A o \in DOMAIN outbound : outbound[o].call # j

\* C22 witness: a request was made for a username, and a later call for the
\* same username with a Discord URL and a tier to report, made at a later
\* time within the cooldown, was suppressed.
C22_Witness ==
    \E j \in DOMAIN dispatched :
        /\ \E o \in RecentRequests(j) : outbound[o].at < dispatched[j].at
        /\ dispatched[j].webhookUrl = DiscordUrl
        /\ Len(tiersArray(dispatched[j].data)) > 0
        /\ ~dispatched[j].returned

\* C23: when the notification sent by a POST /tiers request fails (its call
\* of sendDiscordWebhook returns false), the request is answered 201 with the
\* tier that createTier wrote, the tier is stored, and no timer or pending
\* notification is set up to send it again.
C23_FailedDeliveryKeepsTier ==
    [][(/\ res'.route = "POST /tiers"
        /\ Len(dispatched') = Len(dispatched) + 1
        /\ ~dispatched'[Len(dispatched')].returned)
        => /\ res'.status = 201
           /\ res'.body = createTier(res'.req).tier
           /\ tiers' = createTier(res'.req).tiers
           /\ res'.body.id \in DOMAIN tiers'
           /\ tiers'[res'.body.id] = res'.body
           /\ timers' = timers
           /\ pendingPlayerWebhooks' = pendingPlayerWebhooks]_vars

\* C23 witness: the last answer is the 201 of a POST /tiers whose HTTP request
\* to the webhook failed, and the tier is stored.
C23_Witness ==
    /\ res.route = "POST /tiers"
    /\ res.status = 201
    /\ res.body.id \in DOMAIN tiers
    /\ outbound # <<>>
    /\ outbound[Len(outbound)].call = Len(dispatched)
    /\ ~outbound[Len(outbound)].delivered
    /\ outbound[Len(outbound)].playerId = res.body.playerId
    /\ ~dispatched[Len(dispatched)].returned

\* The calls of sendDiscordWebhook for player p that were suppressed by the
\* cooldown: a Discord URL and a tier to report, and yet no HTTP request.
Suppressed(p) ==
    {j \in DOMAIN dispatched :
        /\ dispatched[j].playerId = p
        /\ startsWithDiscord(dispatched[j].webhookUrl)
        /\ Len(tiersArray(dispatched[j].data)) > 0
        /\ \A o \in DOMAIN outbound : outbound[o].call # j}

\* C24 (as claimed): the notification of a player is suppressed only because
\* of an HTTP request made for that same player less than the cooldown
\* before it, never because of a request made for another player.
C24_PlayersDoNotBlockEachOther ==
    \A p \in DOMAIN players : \A j \in Suppressed(p) :
        \E o \in RecentRequests(j) : outbound[o].playerId = p

\* The HTTP requests made for player p.
RequestsFor(p) == {o \in DOMAIN outbound : outbound[o].playerId = p}

\* C28 (as claimed): once the cooldown has passed since the last HTTP request
\* and nothing is pending (no timer is live), the last request made for a
\* player that has a webhook URL and at least one tier lists the tiers the
\* store holds for the player, provided every request was answered 2xx.
C28_FinalTiersReported ==
    \A p \in DOMAIN players :
        (/\ Truthy(players[p].webhookUrl)
         /\ getTiersByPlayerId(p) # <<>>
         /\ \A o \in DOMAIN outbound :
               /\ outbound[o].delivered
               /\ now - outbound[o].at >= WEBHOOK_COOLDOWN_MS
         /\ timers = {})
        => /\ RequestsFor(p) # {}
           /\ LET last == CHOOSE o \in RequestsFor(p) : \A q \in RequestsFor(p) : q <= o
              IN  outbound[last].fields = embedFields(getTiersByPlayerId(p))

\* The routes whose answers are JSON objects with a success flag.
DatabaseRoutes == {"GET /database/stats", "POST /database/reset"}

\* The routes whose errors reach the error handler of the application.
ErrorHandlerRoutes == {"POST /login"}

\* The fixed messages of the 500 answers of the other routes.
GenericMessages ==
    {"Failed to create/update player", "Failed to update player",
     "Failed to create/update tier", "Failed to create admin", "Failed to register user"}

\* C25 (as claimed): a 500 answer carries a fixed generic message and no
\* field derived from the message of the error that was thrown.
C25_NoRawErrorText ==
    res.status = 500 =>
        IF res.route \in DatabaseRoutes
        THEN DOMAIN res.body = {"success", "message"}
        ELSE IF res.route \in ErrorHandlerRoutes
        THEN DOMAIN res.body = {"error"}
        ELSE res.body \in GenericMessages

\* A stored password that is a digest and its salt.
hashed(stored) == Len(stored) = 2 /\ stored[1] \in Digests

\* C29 (as claimed): every admin record holds a hashed password, and a login
\* with the username and the password of the admin POST /admins has just
\* created is answered 200.
C29_CreatedAdminCanLogIn ==
    [][/\ \A id \in DOMAIN admins' : hashed(admins'[id].password)
       /\ (/\ res.route = "POST /admins"
           /\ res.status = 201
           /\ res'.route = "POST /login"
           /\ res'.req = [username |-> res.req.username, password |-> res.req.password])
          => res'.status = 200]_vars

\* The routes that answer one admin record, and the one that answers a list.
AdminRoutes == {"POST /admins", "POST /register", "POST /login", "GET /user"}

\* C30 (as claimed): no answer that returns admin records holds the password
\* field of one.
C30_NoPasswordInAnswers ==
    res.status \in {200, 201} =>
        /\ res.route \in AdminRoutes => "password" \notin DOMAIN res.body
        /\ res.route = "GET /admins" =>
              \A i \in DOMAIN res.body : "password" \notin DOMAIN res.body[i]

\* C26 (as claimed): the store holds at most one tier per (player, category)
\* pair, also while POST /tiers requests for the same pair interleave.
C26_OneTierPerPairInterleaved ==
    \A t1, t2 \in DOMAIN tiers :
        (tiers[t1].playerId = tiers[t2].playerId /\ tiers[t1].category = tiers[t2].category)
            => t1 = t2

\* C27 (as claimed): when no request is being handled, every stored tier
\* belongs to a stored player.
C27_NoOrphanTierWhenQuiescent ==
    quiescent => \A t \in DOMAIN tiers : tiers[t].playerId \in DOMAIN players

=============================================================================
